---- MODULE Spec2Model ----
(***************************************************************************)
(* A model of jira-scrappy-view: the scraper (jira_scraper.py: HTTP client *)
(* with retry, offset and cursor pagination, normalisation, SQLite store   *)
(* with an FTS5 index kept by triggers) and what the viewer                *)
(* (jira_viewer.py) asks of the store.                                     *)
(*                                                                         *)
(* Python values are tagged records, so that isinstance() can be modelled: *)
(*   None -> Null, str -> Str(text), int -> Num(n), bool -> Bool(b),       *)
(*   list -> Arr(seq), dict -> Obj(function from field names to values).   *)
(* A text (the content of a Python str) is a sequence of atoms; an atom    *)
(* stands for a run of characters: a word, or one separator character.     *)
(***************************************************************************)
EXTENDS Integers, Sequences, FiniteSets, TLC

VARIABLES
    conn,      \* the store as the open connection sees it (uncommitted work included)
    disk,      \* the store as last committed
    clock,     \* the wall clock read by datetime.now(), in ticks
    last,      \* the last call made on the store: what was asked and how it ended
    cmd,       \* what the process was started to do, with its arguments
    pc,        \* where the process is: the call whose HTTP response it awaits, or how it ended
    call,      \* the current (or last) _api_get call: its responses so far and its outcome
    reqs,      \* the _api_get calls the pagination loop has made: parameters and response body
    param,     \* the pagination parameter of the next request: startAt, or next_page_token
    acc,       \* all_results / all_issues of the pagination loop
    total,     \* _paginate's latched total (None until the first response)
    issues,    \* export_to_db's issues, once search_issues has returned
    idx,       \* export_to_db's loop index i: the records processed so far
    ret        \* what the entry point returned

storeVars == <<conn, disk, clock, last>>

runVars == <<cmd, pc, call, reqs, param, acc, total, issues, idx, ret>>

vars == <<conn, disk, clock, last, cmd, pc, call, reqs, param, acc, total, issues, idx, ret>>

----------------------------------------------------------------------------
(* Python values *)

Null == [t |-> "null"]

Str(s) == [t |-> "str", v |-> s]

Num(n) == [t |-> "num", v |-> n]

Arr(xs) == [t |-> "list", v |-> xs]

Obj(f) == [t |-> "dict", v |-> f]

Bool(b) == [t |-> "bool", v |-> b]

EmptyObj == Obj(<<>>)

\* dict.get(k): None when the key is absent
Get(d, k) == IF k \in DOMAIN d.v THEN d.v[k] ELSE Null

\* dict.get(k, default)
GetD(d, k, dflt) == IF k \in DOMAIN d.v THEN d.v[k] ELSE dflt

\* Python truthiness, as `if x:` and `x or y` test it
Truthy(x) ==
    CASE x.t = "null" -> FALSE
      [] x.t = "str"  -> x.v # <<>>
      [] x.t = "list" -> x.v # <<>>
      [] x.t = "dict" -> DOMAIN x.v # {}
      [] x.t = "num"  -> x.v # 0
      [] x.t = "bool" -> x.v

\* str(x): the text of a str is itself; other values print
PyStr(x) ==
    CASE x.t = "str"  -> x.v
      [] x.t = "null" -> <<"None">>
      [] x.t = "num"  -> <<ToString(x.v)>>
      [] x.t = "list" -> <<"[list]">>
      [] x.t = "dict" -> <<"{dict}">>
      [] x.t = "bool" -> <<IF x.v THEN "True" ELSE "False">>

\* json.dumps(x): a text that json.loads maps back to x and to nothing else
\* (the values here are JSON values: what response.json() gave, and dicts,
\* lists, strings and None built from them)
JsonDumps(x) == [t |-> "json", of |-> x]

JsonLoads(j) == j.of

SeqMap(F(_), s) == [i \in DOMAIN s |-> F(s[i])]

Range(s) == {s[i] : i \in DOMAIN s}

RECURSIVE Flatten(_)
Flatten(ss) == IF ss = <<>> THEN <<>> ELSE Head(ss) \o Flatten(Tail(ss))

----------------------------------------------------------------------------
(* DocumentFlattener: JiraScraper._adf_to_text *)

\* A variant of OwnText whose mention has no '@'.
OwnText_BareMention(node) ==
    LET type == Get(node, "type")
    IN  CASE type = Str(<<"text">>) -> GetD(node, "text", Str(<<>>)).v
          [] type = Str(<<"hardBreak">>) -> <<"\n">>
          [] type = Str(<<"mention">>) ->
                PyStr(GetD(GetD(node, "attrs", EmptyObj), "text", Str(<<"user">>)))
          [] OTHER -> <<>>

\* What a dict node itself appends to text_parts, by its type.
OwnText(node) ==
    LET type == Get(node, "type")
    IN  CASE type = Str(<<"text">>) -> GetD(node, "text", Str(<<>>)).v
          [] type = Str(<<"hardBreak">>) -> <<"\n">>
          [] type = Str(<<"mention">>) ->
                <<"@">> \o PyStr(GetD(GetD(node, "attrs", EmptyObj), "text", Str(<<"user">>)))
          [] OTHER -> <<>>

\* extract_text(node): the text a node appends to text_parts, in order
RECURSIVE extract_text(_)
extract_text(node) ==
    CASE node.t = "str" -> node.v
      [] node.t = "list" ->
            IF node.v = <<>> THEN <<>>
            ELSE extract_text(Head(node.v)) \o extract_text(Arr(Tail(node.v)))
      [] node.t = "dict" ->
            LET content == GetD(node, "content", Arr(<<>>))
            IN  OwnText(node) \o (IF Truthy(content) THEN extract_text(content) ELSE <<>>)
      [] OTHER -> <<>>

\* Whether a dict node stops the flattening with an exception: a mention
\* whose attrs is present and no dict (AttributeError: .get of None), or a
\* text whose text is present and no str ("".join then raises TypeError).
OwnRaises(node) ==
    LET type == Get(node, "type")
    IN  \/ type = Str(<<"mention">>) /\ GetD(node, "attrs", EmptyObj).t # "dict"
        \/ type = Str(<<"text">>) /\ GetD(node, "text", Str(<<>>)).t # "str"

\* Whether extract_text(node), or the join after it, raises.
RECURSIVE extract_text_raises(_)
extract_text_raises(node) ==
    CASE node.t = "list" -> \E n \in DOMAIN node.v : extract_text_raises(node.v[n])
      [] node.t = "dict" ->
            LET content == GetD(node, "content", Arr(<<>>))
            IN  OwnRaises(node) \/ (Truthy(content) /\ extract_text_raises(content))
      [] OTHER -> FALSE

\* The text _adf_to_text returns when it returns.
_adf_to_text(adf) == IF adf.t # "dict" THEN PyStr(adf) ELSE extract_text(adf)

\* Whether _adf_to_text raises.
_adf_to_text_raises(adf) == adf.t = "dict" /\ extract_text_raises(adf)

----------------------------------------------------------------------------
(* RecordNormalizer: JiraScraper.process_issue and its helpers *)

extract_user_info(user_data) ==
    IF ~Truthy(user_data) THEN Null
    ELSE Obj([accountId    |-> Get(user_data, "accountId"),
              displayName  |-> Get(user_data, "displayName"),
              emailAddress |-> Get(user_data, "emailAddress")])

extract_comment_info(comment) ==
    LET body == GetD(comment, "body", EmptyObj)
        body_text == IF body.t = "dict" THEN _adf_to_text(body) ELSE PyStr(body)
    IN  Obj([id      |-> Get(comment, "id"),
             author  |-> extract_user_info(Get(comment, "author")),
             body    |-> Str(body_text),
             bodyRaw |-> Get(comment, "body"),
             created |-> Get(comment, "created"),
             updated |-> Get(comment, "updated")])

extract_changelog(issue) ==
    LET histories == GetD(GetD(issue, "changelog", EmptyObj), "histories", Arr(<<>>))
        change(history, item) ==
            Obj([field     |-> Get(item, "field"),
                 fieldtype |-> Get(item, "fieldtype"),
                 from      |-> Get(item, "fromString"),
                 to        |-> Get(item, "toString"),
                 author    |-> extract_user_info(Get(history, "author")),
                 created   |-> Get(history, "created")])
        ofHistory(history) ==
            LET items == GetD(history, "items", Arr(<<>>)).v
            IN  [i \in DOMAIN items |-> change(history, items[i])]
    IN  Arr(Flatten(SeqMap(ofHistory, histories.v)))

\* `a or b`
Or(a, b) == IF Truthy(a) THEN a ELSE b

\* key.startswith("customfield_"), over the field names the model uses
StartsWithCustomfield(key) == key \in {"customfield_10001", "customfield_10002"}

\* v.get("value") or v.get("name") or v, for an element v of a list
CustomElement(v) == Or(Or(Get(v, "value"), Get(v, "name")), v)

\* What _extract_custom_fields stores for a non-null value.
CustomValue(value) ==
    CASE value.t = "dict" ->
            IF "value" \in DOMAIN value.v THEN value.v["value"]
            ELSE IF "name" \in DOMAIN value.v THEN value.v["name"]
            ELSE value
      [] value.t = "list" /\ value.v # <<>> ->
            IF value.v[1].t = "dict" THEN Arr(SeqMap(CustomElement, value.v)) ELSE value
      [] OTHER -> value

\* The fields _extract_custom_fields keeps.
CustomKeys(fields) ==
    {key \in DOMAIN fields.v : StartsWithCustomfield(key) /\ fields.v[key] # Null}

_extract_custom_fields(fields) ==
    Obj([key \in CustomKeys(fields) |-> CustomValue(fields.v[key])])

\* Whether _extract_custom_fields raises: v.get on an element that is no
\* dict, in a list whose first element is one (AttributeError).
_extract_custom_fields_raises(fields) ==
    \E key \in CustomKeys(fields) :
        LET value == fields.v[key]
        IN  /\ value.t = "list"
            /\ value.v # <<>>
            /\ value.v[1].t = "dict"
            /\ \E n \in DOMAIN value.v : value.v[n].t # "dict"

\* d.get(k, {}).get(...) raises AttributeError when d[k] is present and no dict.
NotDict(d, k) == GetD(d, k, EmptyObj).t # "dict"

\* (d.get(k, {}).get(...) if d.get(k) else None) raises when d[k] is truthy and no dict.
TruthyNotDict(d, k) == Truthy(Get(d, k)) /\ Get(d, k).t # "dict"

\* [x.get(...) for x in d.get(k, [])] raises when d[k] is present and cannot
\* be iterated (TypeError) or yields something that is no dict (AttributeError).
NotDicts(d, k) ==
    LET xs == GetD(d, k, Arr(<<>>))
    IN  CASE xs.t = "list" -> \E n \in DOMAIN xs.v : xs.v[n].t # "dict"
          [] xs.t \in {"str", "dict"} -> Truthy(xs)
          [] OTHER -> TRUE

extract_user_info_raises(user_data) == Truthy(user_data) /\ user_data.t # "dict"

extract_comment_info_raises(comment) ==
    \/ comment.t # "dict"
    \/ extract_user_info_raises(Get(comment, "author"))
    \/ LET body == GetD(comment, "body", EmptyObj)
       IN  body.t = "dict" /\ _adf_to_text_raises(body)

extract_changelog_raises(issue) ==
    \/ NotDict(issue, "changelog")
    \/ LET changelog == GetD(issue, "changelog", EmptyObj)
       IN  \/ NotDicts(changelog, "histories")
           \/ LET histories == GetD(changelog, "histories", Arr(<<>>))
              IN  histories.t = "list" /\
                  \E n \in DOMAIN histories.v :
                      \/ NotDicts(histories.v[n], "items")
                      \/ /\ GetD(histories.v[n], "items", Arr(<<>>)) # Arr(<<>>)
                         /\ extract_user_info_raises(Get(histories.v[n], "author"))

\* process_issue, given what get_issue_comments returned and the clock's reading.
process_issue(issue, comments, now) ==
    LET fields == GetD(issue, "fields", EmptyObj)
        description == GetD(fields, "description", EmptyObj)
        description_text ==
            IF description.t = "dict" THEN _adf_to_text(description)
            ELSE IF Truthy(description) THEN PyStr(description) ELSE <<>>
        name(x) == Get(x, "name")
        names(f) == Arr(SeqMap(name, GetD(fields, f, Arr(<<>>)).v))
        subtask(st) == Obj([key     |-> Get(st, "key"),
                            summary |-> Get(GetD(st, "fields", EmptyObj), "summary")])
        link(l) == Obj([type    |-> Get(GetD(l, "type", EmptyObj), "name"),
                        inward  |-> Get(GetD(l, "inwardIssue", EmptyObj), "key"),
                        outward |-> Get(GetD(l, "outwardIssue", EmptyObj), "key")])
    IN  Obj([key            |-> Get(issue, "key"),
             id             |-> Get(issue, "id"),
             self           |-> Get(issue, "self"),
             summary        |-> Get(fields, "summary"),
             description    |-> Str(description_text),
             descriptionRaw |-> Get(fields, "description"),
             status         |-> Obj([name |-> Get(GetD(fields, "status", EmptyObj), "name"),
                                     category |-> Get(GetD(GetD(fields, "status", EmptyObj),
                                                           "statusCategory", EmptyObj), "name")]),
             priority       |-> Obj([name |-> IF Truthy(Get(fields, "priority"))
                                              THEN Get(GetD(fields, "priority", EmptyObj), "name")
                                              ELSE Null]),
             issueType      |-> Obj([name |-> Get(GetD(fields, "issuetype", EmptyObj), "name"),
                                     subtask |-> Get(GetD(fields, "issuetype", EmptyObj), "subtask")]),
             project        |-> Obj([key |-> Get(GetD(fields, "project", EmptyObj), "key"),
                                     name |-> Get(GetD(fields, "project", EmptyObj), "name")]),
             creator        |-> extract_user_info(Get(fields, "creator")),
             reporter       |-> extract_user_info(Get(fields, "reporter")),
             assignee       |-> extract_user_info(Get(fields, "assignee")),
             created        |-> Get(fields, "created"),
             updated        |-> Get(fields, "updated"),
             resolved       |-> Get(fields, "resolutiondate"),
             resolution     |-> IF Truthy(Get(fields, "resolution"))
                                THEN Get(GetD(fields, "resolution", EmptyObj), "name")
                                ELSE Null,
             labels         |-> GetD(fields, "labels", Arr(<<>>)),
             components     |-> names("components"),
             fixVersions    |-> names("fixVersions"),
             affectsVersions |-> names("versions"),
             comments       |-> Arr(SeqMap(extract_comment_info, comments)),
             changelog      |-> extract_changelog(issue),
             subtasks       |-> Arr(SeqMap(subtask, GetD(fields, "subtasks", Arr(<<>>)).v)),
             parent         |-> IF Truthy(Get(fields, "parent"))
                                THEN Obj([key |-> Get(GetD(fields, "parent", EmptyObj), "key"),
                                          summary |-> Get(GetD(GetD(fields, "parent", EmptyObj),
                                                               "fields", EmptyObj), "summary")])
                                ELSE Null,
             links          |-> Arr(SeqMap(link, GetD(fields, "issuelinks", Arr(<<>>)).v)),
             customFields   |-> _extract_custom_fields(fields),
             _exportedAt    |-> Str(<<ToString(now)>>)])

\* Whether process_issue raises, given what get_issue_comments returned:
\* some .get is called on a value that is no dict, or some loop runs over a
\* value that cannot be iterated, or a helper raises.
process_issue_raises(issue, comments) ==
    \/ NotDict(issue, "fields")
    \/ LET fields == GetD(issue, "fields", EmptyObj)
           description == GetD(fields, "description", EmptyObj)
           inner(f, k) == ~NotDicts(fields, f) /\
                          LET xs == GetD(fields, f, Arr(<<>>))
                          IN  xs.t = "list" /\ \E n \in DOMAIN xs.v : NotDict(xs.v[n], k)
       IN  \/ description.t = "dict" /\ _adf_to_text_raises(description)
           \/ NotDict(fields, "status")
           \/ NotDict(GetD(fields, "status", EmptyObj), "statusCategory")
           \/ TruthyNotDict(fields, "priority")
           \/ NotDict(fields, "issuetype")
           \/ NotDict(fields, "project")
           \/ \E u \in {"creator", "reporter", "assignee"} :
                  extract_user_info_raises(Get(fields, u))
           \/ TruthyNotDict(fields, "resolution")
           \/ \E f \in {"components", "fixVersions", "versions", "subtasks", "issuelinks"} :
                  NotDicts(fields, f)
           \/ \E n \in DOMAIN comments : extract_comment_info_raises(comments[n])
           \/ extract_changelog_raises(issue)
           \/ inner("subtasks", "fields")
           \/ TruthyNotDict(fields, "parent")
           \/ Truthy(Get(fields, "parent")) /\ NotDict(GetD(fields, "parent", EmptyObj), "fields")
           \/ \E k \in {"type", "inwardIssue", "outwardIssue"} : inner("issuelinks", k)
           \/ _extract_custom_fields_raises(fields)

----------------------------------------------------------------------------
(* Storage: JiraDatabase.  A store holds the tickets table (a set of rows,   *)
(* each with its rowid), the four child tables (rows in insertion order)     *)
(* and the FTS5 index tickets_fts.  tickets_fts is an external-content       *)
(* table (content='tickets'): the index holds, per indexed rowid, the        *)
(* tokens of the text it was given; column values are read back from         *)
(* tickets by rowid.                                                         *)

Separators == {"\n", "\t", "@", "-", " "}

\* ASCII case folding, as the unicode61 tokenizer and LIKE both apply it.
Lower(a) == IF a = "Alpha" THEN "alpha" ELSE a

Fold(text) == [n \in DOMAIN text |-> Lower(text[n])]

\* The maximal runs of atoms outside seps, in the text's order.
RECURSIVE Split(_, _, _)
Split(text, seps, run) ==
    IF text = <<>> THEN (IF run = <<>> THEN <<>> ELSE <<run>>)
    ELSE IF Head(text) \in seps
         THEN (IF run = <<>> THEN <<>> ELSE <<run>>) \o Split(Tail(text), seps, <<>>)
         ELSE Split(Tail(text), seps, Append(run, Head(text)))

\* The folded tokens of a column value, in order: NULL has none.
ColumnTokens(x) == IF x.t = "str" THEN Split(Fold(x.v), Separators, <<>>) ELSE <<>>

\* The FTS5 tokenizer: the maximal runs of non-separator atoms of a text.
RECURSIVE Runs(_, _)
Runs(text, run) ==
    IF text = <<>> THEN (IF run = <<>> THEN {} ELSE {run})
    ELSE IF Head(text) \in Separators
         THEN (IF run = <<>> THEN {} ELSE {run}) \cup Runs(Tail(text), <<>>)
         ELSE Runs(Tail(text), Append(run, Head(text)))

\* The tokens of a column value: NULL has none.
Tokenize(x) == IF x.t = "str" THEN Runs(x.v, <<>>) ELSE {}

EmptyDb ==
    [tickets |-> {}, comments |-> <<>>, changelog |-> <<>>,
     issue_links |-> <<>>, subtasks |-> <<>>, tickets_fts |-> {}]

\* The index entry the triggers tickets_ai / tickets_au insert for a row.
FtsEntry(row) ==
    [rowid |-> row.rowid,
     tokens |-> Tokenize(row.key) \cup Tokenize(row.summary) \cup Tokenize(row.description),
     cols |-> <<ColumnTokens(row.key), ColumnTokens(row.summary), ColumnTokens(row.description)>>]

\* The tickets row insert_ticket binds from a normalized record.
TicketRow(ticket, rowid) ==
    LET name(f, k) == IF Truthy(Get(ticket, f)) THEN Get(GetD(ticket, f, EmptyObj), k) ELSE Null
    IN  [rowid           |-> rowid,
         key             |-> Get(ticket, "key"),
         id              |-> Get(ticket, "id"),
         summary         |-> Get(ticket, "summary"),
         description     |-> Get(ticket, "description"),
         description_raw |-> JsonDumps(Get(ticket, "descriptionRaw")),
         status          |-> name("status", "name"),
         status_category |-> name("status", "category"),
         issue_type      |-> name("issueType", "name"),
         project_key     |-> name("project", "key"),
         project_name    |-> name("project", "name"),
         updated         |-> Get(ticket, "updated"),
         raw_json        |-> JsonDumps(ticket),
         exported_at     |-> Get(ticket, "_exportedAt")]

MaxRowid(db) ==
    IF db.tickets = {} THEN 0
    ELSE CHOOSE m \in {r.rowid : r \in db.tickets} : \A r \in db.tickets : r.rowid <= m

\* INSERT OR REPLACE INTO tickets: the row holding the key is deleted by the
\* conflict resolution, which fires no delete trigger (recursive_triggers is
\* off, the default, and nothing sets it), so tickets_ad does not run; the new
\* row gets the next rowid and the AFTER INSERT trigger tickets_ai indexes it.
InsertOrReplace(db, ticket) ==
    LET row == TicketRow(ticket, MaxRowid(db) + 1)
    IN  [db EXCEPT !.tickets = {r \in @ : r.key # row.key} \cup {row},
                   !.tickets_fts = @ \cup {FtsEntry(row)}]

\* A variant of DeleteChildren that leaves the changelog rows in place.
DeleteChildren_KeepChangelog(db, ticket_key) ==
    LET other(r) == r.ticket_key # ticket_key
    IN  [db EXCEPT !.comments = SelectSeq(@, other),
                   !.issue_links = SelectSeq(@, other),
                   !.subtasks = SelectSeq(@, other)]

\* A variant of DeleteChildren whose first DELETE has no WHERE clause.
DeleteChildren_AllComments(db, ticket_key) ==
    LET other(r) == r.ticket_key # ticket_key
    IN  [db EXCEPT !.comments = <<>>,
                   !.changelog = SelectSeq(@, other),
                   !.issue_links = SelectSeq(@, other),
                   !.subtasks = SelectSeq(@, other)]

\* The four DELETE ... WHERE ticket_key = ? statements.
DeleteChildren(db, ticket_key) ==
    LET other(r) == r.ticket_key # ticket_key
    IN  [db EXCEPT !.comments = SelectSeq(@, other),
                   !.changelog = SelectSeq(@, other),
                   !.issue_links = SelectSeq(@, other),
                   !.subtasks = SelectSeq(@, other)]

CommentRow(ticket_key, comment) ==
    [id         |-> Get(comment, "id"),
     ticket_key |-> ticket_key,
     body       |-> Get(comment, "body"),
     body_raw   |-> JsonDumps(Get(comment, "bodyRaw")),
     created    |-> Get(comment, "created"),
     updated    |-> Get(comment, "updated")]

ChangelogRow(ticket_key, change) ==
    [ticket_key |-> ticket_key,
     field      |-> Get(change, "field"),
     field_type |-> Get(change, "fieldtype"),
     from_value |-> Get(change, "from"),
     to_value   |-> Get(change, "to"),
     created    |-> Get(change, "created")]

LinkRow(ticket_key, link) ==
    [ticket_key  |-> ticket_key,
     link_type   |-> Get(link, "type"),
     inward_key  |-> Get(link, "inward"),
     outward_key |-> Get(link, "outward")]

SubtaskRow(ticket_key, subtask) ==
    [ticket_key      |-> ticket_key,
     subtask_key     |-> Get(subtask, "key"),
     subtask_summary |-> Get(subtask, "summary")]

\* The loop over ticket["comments"]: each INSERT INTO comments fails with
\* IntegrityError when its id (TEXT PRIMARY KEY, NULLs apart) is already in
\* the table; the rows inserted before it stay in the open transaction.
RECURSIVE InsertComments(_, _, _)
InsertComments(db, ticket_key, comments) ==
    IF comments = <<>> THEN [db |-> db, ok |-> TRUE]
    ELSE LET row == CommentRow(ticket_key, Head(comments))
         IN  IF row.id # Null /\ \E i \in DOMAIN db.comments : db.comments[i].id = row.id
             THEN [db |-> db, ok |-> FALSE]
             ELSE InsertComments([db EXCEPT !.comments = Append(@, row)],
                                 ticket_key, Tail(comments))

\* insert_ticket up to, and without, its commit: the store the connection
\* then sees, and whether the call got as far as the commit.
insert_ticket(db, ticket) ==
    LET ticket_key == Get(ticket, "key")
        d1 == DeleteChildren(InsertOrReplace(db, ticket), ticket_key)
        c  == InsertComments(d1, ticket_key, GetD(ticket, "comments", Arr(<<>>)).v)
        rows(F(_, _), f) == LET xs == GetD(ticket, f, Arr(<<>>)).v
                            IN  [i \in DOMAIN xs |-> F(ticket_key, xs[i])]
    IN  IF ~c.ok THEN c
        ELSE [db |-> [c.db EXCEPT !.changelog = @ \o rows(ChangelogRow, "changelog"),
                                  !.issue_links = @ \o rows(LinkRow, "links"),
                                  !.subtasks = @ \o rows(SubtaskRow, "subtasks")],
              ok |-> TRUE]

\* A variant of Commit that leaves the transaction open.
Commit_Never(r, committed) == committed

\* insert_ticket's closing conn.commit(), reached when no statement raised:
\* the committed store after the call r, given the one before it.
Commit(r, committed) == IF r.ok THEN r.db ELSE committed

\* INSERT INTO tickets_fts(tickets_fts) VALUES('rebuild'): the index is
\* dropped and built again from the rows of tickets.
rebuild_fts(db) == [db EXCEPT !.tickets_fts = {FtsEntry(r) : r \in db.tickets}]

IsPrefix(p, s) == Len(p) <= Len(s) /\ SubSeq(s, 1, Len(p)) = p

\* The viewer's full-text path for a one-word query q (fts_query is q*, a
\* prefix match):
\*   SELECT t.key ... FROM tickets t JOIN tickets_fts fts ON t.key = fts.key
\*   WHERE tickets_fts MATCH ?
\* FTS5 reads fts.key of every matching index entry from the tickets row with
\* the entry's rowid; when that row is gone the statement fails (SQLITE_CORRUPT_VTAB,
\* "database disk image is malformed").  The result: whether the statement
\* failed, and the keys it returned.
FtsQuery(db, q) ==
    LET hits == {e \in db.tickets_fts : \E tok \in e.tokens : IsPrefix(q, tok)}
        live(e) == \E r \in db.tickets : r.rowid = e.rowid
    IN  IF \E e \in hits : ~live(e) THEN [error |-> TRUE, keys |-> {}]
        ELSE [error |-> FALSE,
              keys |-> {t.key : t \in {t \in db.tickets :
                                  \E e \in hits, r \in db.tickets :
                                      r.rowid = e.rowid /\ r.key = t.key}}]

----------------------------------------------------------------------------
(* What the source holds: issues as the search endpoint returns them, each  *)
(* with the comments its comment endpoint returns.                          *)

MaxOps == 3

W(a) == Str(<<a>>)

KeyA == Str(<<"A", "-", "1">>)

KeyB == Str(<<"B", "-", "2">>)

Keys == {KeyA, KeyB}

Doc1 ==
    Obj([type |-> W("doc"), version |-> Num(1),
         content |-> Arr(<<
            Obj([type |-> W("paragraph"),
                 content |-> Arr(<<
                    Obj([type |-> W("text"), text |-> W("delta")]),
                    Obj([type |-> W("hardBreak")]),
                    Obj([type |-> W("mention"), attrs |-> Obj([id |-> W("u1"), text |-> W("bob")])])
                 >>)])
         >>)])

RawComment(id, body) ==
    Obj([id |-> W(id), body |-> body, created |-> W("t1"), updated |-> W("t2"),
         author |-> Obj([accountId |-> W("u1"), displayName |-> W("bob")])])

Item(field, from, to) ==
    Obj([field |-> W(field), fieldtype |-> W("jira"), fromString |-> from, toString |-> to])

History(created, items) ==
    Obj([created |-> W(created), author |-> Null, items |-> Arr(items)])

Variants == {1, 2, 3}

Issue(key, v) ==
    LET common == [status |-> Obj([name |-> W("Open"), statusCategory |-> Obj([name |-> W("To Do")])]),
                   issuetype |-> Obj([name |-> W("Bug"), subtask |-> Null]),
                   project |-> Obj([key |-> Str(<<key.v[1]>>), name |-> W("Proj")])]
        fields ==
            CASE v = 1 -> common @@
                    [summary |-> W("alpha"), description |-> W("gamma"), updated |-> W("d1"),
                     subtasks |-> Arr(<<Obj([key |-> W("S1"), fields |-> Obj([summary |-> W("sub")])])>>),
                     issuelinks |-> Arr(<<Obj([type |-> Obj([name |-> W("Blocks")]),
                                               outwardIssue |-> Obj([key |-> W("X1")])])>>)]
              [] v = 2 -> common @@
                    [summary |-> W("beta"), description |-> Doc1, updated |-> W("d2")]
              [] v = 3 -> common @@
                    [summary |-> W("alpha"), updated |-> W("d3")]
        histories ==
            CASE v = 1 -> <<History("h1", <<Item("status", W("Open"), W("Done")),
                                            Item("assignee", Null, W("bob"))>>)>>
              [] v = 2 -> <<>>
              [] v = 3 -> <<History("h2", <<Item("status", W("Done"), W("Open"))>>)>>
    IN  Obj([key |-> key, id |-> W("10"), fields |-> Obj(fields),
             changelog |-> Obj([histories |-> Arr(histories)])])

CommentsOf(v) ==
    CASE v = 1 -> <<RawComment("c1", W("gamma")), RawComment("c2", Doc1)>>
      [] v = 2 -> <<RawComment("c3", Doc1), RawComment("c1", W("moved"))>>
      [] v = 3 -> <<>>

Snapshots == {[issue |-> Issue(k, v), comments |-> CommentsOf(v)] : k \in Keys, v \in Variants}

----------------------------------------------------------------------------
(* The store's operations as a user of JiraDatabase may call them. *)

NoCall == [op |-> "open", ok |-> TRUE, issue |-> Null, comments |-> <<>>,
           ticket |-> Null, before |-> EmptyDb]

NoApiCall == [caller |-> "", responses |-> <<>>, outcome |-> "none", result |-> Null]

NotReturned == [returned |-> FALSE, value |-> Null]

Returned(x) == [returned |-> TRUE, value |-> x]

\* No scraper run: the store is used through JiraDatabase alone.
IdleRun ==
    /\ cmd = [name |-> "store", key |-> "", T |-> 0]
    /\ pc = "idle"
    /\ call = NoApiCall
    /\ reqs = <<>>
    /\ param = Null
    /\ acc = <<>>
    /\ total = Null
    /\ issues = NotReturned
    /\ idx = 0
    /\ ret = NotReturned

InitStore ==
    /\ conn = EmptyDb
    /\ disk = EmptyDb
    /\ clock = 0
    /\ last = NoCall
    /\ IdleRun

\* db.insert_ticket(process_issue(issue)) on a source snapshot: the statements
\* run in the connection's open transaction; conn.commit() is reached only
\* when no statement raised.
InsertTicket ==
    \E s \in Snapshots :
        /\ pc = "idle"
        /\ clock < MaxOps
        /\ LET ticket == process_issue(s.issue, s.comments, clock)
               r == insert_ticket(conn, ticket)
           IN  /\ conn' = r.db
               /\ disk' = Commit(r, disk)
               /\ last' = [op |-> "insert_ticket", ok |-> r.ok, issue |-> s.issue,
                           comments |-> s.comments, ticket |-> ticket, before |-> conn]
        /\ clock' = clock + 1
        /\ UNCHANGED runVars

\* db.rebuild_fts(): the rebuild, then conn.commit().
RebuildFts ==
    /\ pc = "idle"
    /\ conn' = rebuild_fts(conn)
    /\ disk' = conn'
    /\ last' = [NoCall EXCEPT !.op = "rebuild_fts", !.before = conn]
    /\ UNCHANGED clock
    /\ UNCHANGED runVars

\* db.close() with no commit, which drops the open transaction, and
\* JiraDatabase(db_path) again: the new connection sees the committed store
\* (_create_tables finds every table and trigger in place).
Reopen ==
    /\ pc = "idle"
    /\ conn' = disk
    /\ last' = [NoCall EXCEPT !.before = conn]
    /\ UNCHANGED <<disk, clock>>
    /\ UNCHANGED runVars

NextStore == InsertTicket \/ RebuildFts \/ Reopen

SpecStore == InitStore /\ [][NextStore]_vars

----------------------------------------------------------------------------
(* PaginatingClient: JiraScraper._api_get and its callers.  One step is one *)
(* HTTP response received inside _api_get, together with everything the     *)
(* process then does until it sends the next request or ends.               *)

max_retries == 5

PageSize == 100

MaxTotal == 250

MaxRequests == 3

Statuses == {200, 401, 403, 404, 429, 500}

\* requests.Response.ok: raise_for_status() would not raise
ResponseOk(status) == status < 400

\* A variant of ApiOutcome whose retry loop runs one pass more.
ApiOutcome_OneMore(attempt, status) ==
    IF status = 429 THEN (IF attempt + 1 <= max_retries THEN "retry" ELSE "exit")
    ELSE IF status = 401 \/ status = 403 THEN "exit"
    ELSE IF ~ResponseOk(status) THEN "raise"
    ELSE "return"

\* A variant of ApiOutcome whose loop, on its last pass, hands the 429
\* response to the caller as the call's result.
ApiOutcome_FallThrough(attempt, status) ==
    IF status = 429 THEN (IF attempt + 1 < max_retries THEN "retry" ELSE "return")
    ELSE IF status = 401 \/ status = 403 THEN "exit"
    ELSE IF ~ResponseOk(status) THEN "raise"
    ELSE "return"

\* One pass of `for attempt in range(max_retries)` on a response:
\*   "retry"  429, sleep and continue with the next pass
\*   "exit"   sys.exit(1): 401, 403, or 429 on the last pass (the loop ends)
\*   "raise"  response.raise_for_status() raises requests.HTTPError
\*   "return" return response.json()
ApiOutcome(attempt, status) ==
    IF status = 429 THEN (IF attempt + 1 < max_retries THEN "retry" ELSE "exit")
    ELSE IF status = 401 \/ status = 403 THEN "exit"
    ELSE IF ~ResponseOk(status) THEN "raise"
    ELSE "return"

\* What the server sends with a status other than success.
ErrorBody(status) == Obj([errorMessages |-> Arr(<<W(ToString(status))>>)])

Response(status, body) ==
    [status |-> status, body |-> IF ResponseOk(status) THEN body ELSE ErrorBody(status)]

\* Whether the response now received is the first of a new _api_get call.
NewCall == call.outcome # "retry"

\* A variant of _api_get whose attempt counter is not reset between calls.
_api_get_SharedCounter(caller, status, body) ==
    LET sofar == call.responses
        out == ApiOutcome(Len(sofar), status)
        resp == Response(status, body)
    IN  [caller |-> caller, responses |-> Append(sofar, resp), outcome |-> out,
         result |-> IF out = "return" THEN resp.body ELSE Null]

\* _api_get after one more response: the call's responses so far, its outcome
\* and, when it returns, what it returns.
_api_get(caller, status, body) ==
    LET sofar == IF NewCall THEN <<>> ELSE call.responses
        out == ApiOutcome(Len(sofar), status)
        resp == Response(status, body)
    IN  [caller |-> caller, responses |-> Append(sofar, resp), outcome |-> out,
         result |-> IF out = "return" THEN resp.body ELSE Null]

\* A variant of ExceptException that catches SystemExit too (a bare except).
ExceptException_Bare(outcome) == outcome \in {"raise", "exit"}

\* `except Exception` of test_connection and list_projects: HTTPError is
\* caught, SystemExit (a BaseException) is not.
ExceptException(outcome) == outcome = "raise"

\* A variant of ExceptHTTPError that catches nothing.
ExceptHTTPError_None(outcome) == FALSE

\* `except requests.HTTPError` of get_issue_comments and of main.
ExceptHTTPError(outcome) == outcome = "raise"

UserBody == Obj([accountId |-> W("u1"), displayName |-> W("bob")])

ProjectsBody == Arr(<<Obj([key |-> W("A"), name |-> W("Proj")])>>)

\* test_connection, called by main for --test and before --list-projects.
TestConnection ==
    /\ pc = "test_connection"
    /\ \E status \in Statuses :
        LET c == _api_get("test_connection", status, UserBody)
            finished == c.outcome = "return" \/ ExceptException(c.outcome)
            connected == c.outcome = "return"
        IN  /\ call' = c
            /\ pc' = IF c.outcome = "retry" THEN pc
                     ELSE IF ~finished THEN "exit1"
                     ELSE IF cmd.name = "test" THEN "exit0"
                     ELSE IF connected THEN "list_projects" ELSE "exit1"
            /\ ret' = IF finished /\ cmd.name = "test" THEN Returned(connected) ELSE ret
    /\ UNCHANGED <<storeVars, cmd, reqs, param, acc, total, issues, idx>>

\* list_projects, called by main for --list-projects.
ListProjects ==
    /\ pc = "list_projects"
    /\ \E status \in Statuses :
        LET c == _api_get("list_projects", status, ProjectsBody)
            finished == c.outcome = "return" \/ ExceptException(c.outcome)
        IN  /\ call' = c
            /\ pc' = IF c.outcome = "retry" THEN pc
                     ELSE IF finished THEN "exit0" ELSE "exit1"
            /\ ret' = IF ~finished THEN ret
                      ELSE IF c.outcome = "return" THEN Returned(c.result)
                      ELSE Returned(Arr(<<>>))
    /\ UNCHANGED <<storeVars, cmd, reqs, param, acc, total, issues, idx>>

\* A variant of PaginateDone that never finds the total reached.
PaginateDone_Never(all_results, latched) == FALSE

\* A variant of PaginateDone with a strict comparison.
PaginateDone_Strict(all_results, latched) == Len(all_results) > latched.v

\* _paginate's `if len(all_results) >= total: break`
PaginateDone(all_results, latched) == Len(all_results) >= latched.v

\* The offset source that declares total T and serves, for a startAt, the
\* records from startAt on, at most PageSize of them, under the key asked for.
HonestPage(T, key, startAt) ==
    LET n == IF T - startAt > PageSize THEN PageSize
             ELSE IF T - startAt > 0 THEN T - startAt ELSE 0
        page == Arr([k \in 1..n |-> startAt + k])
    IN  Obj(IF key = "issues" THEN [total |-> Num(T), issues |-> page]
            ELSE [total |-> Num(T), values |-> page])

\* The log of the pagination's _api_get calls, with the call this response
\* belongs to added when it is a new one.
Logged == IF NewCall THEN Append(reqs, [param |-> param, body |-> Null]) ELSE reqs

Answered(log, body) == [log EXCEPT ![Len(log)].body = body]

\* A variant of EmptyPage for which no page is empty.
EmptyPage_GoesOn(results) == FALSE

\* _paginate's `if not results: break`
EmptyPage(results) == results = <<>>

\* _paginate's loop on one response of a source that answers the request
\* with one of `bodies`.  `len(all_results) >= total` raises TypeError when
\* the first response carried a total that is no number.
PaginateOn(bodies) ==
    /\ pc = "paginate"
    /\ \E status \in Statuses, body \in bodies :
        LET c == _api_get("_paginate", status, body)
            data == c.result
            results == IF cmd.key = "issues" THEN GetD(data, "issues", Arr(<<>>)).v
                       ELSE GetD(data, cmd.key, Arr(<<>>)).v
            all_results == acc \o results
            latched == IF total = Null THEN GetD(data, "total", Num(Len(results))) ELSE total
            type_error == latched.t # "num"
            stop == ~type_error /\ (PaginateDone(all_results, latched) \/ EmptyPage(results))
        IN  /\ call' = c
            /\ IF c.outcome = "return"
               THEN /\ reqs' = Answered(Logged, data)
                    /\ acc' = all_results
                    /\ total' = latched
                    /\ param' = IF stop \/ type_error THEN param ELSE Num(Len(all_results))
                    /\ pc' = IF type_error THEN "raised" ELSE IF stop THEN "returned" ELSE pc
                    /\ ret' = IF stop THEN Returned(all_results) ELSE ret
               ELSE /\ reqs' = Logged
                    /\ pc' = CASE c.outcome = "retry" -> pc
                               [] c.outcome = "exit"  -> "exit1"
                               [] c.outcome = "raise" -> "raised"
                    /\ UNCHANGED <<acc, total, param, ret>>
    /\ UNCHANGED <<storeVars, cmd, issues, idx>>

\* _paginate(endpoint, params, key), called on its own against the honest
\* source.
Paginate == PaginateOn({HonestPage(cmd.T, cmd.key, param.v)})

MaxPages == 4

\* What an offset source may answer for a startAt, whatever it declared
\* before: a full page, half a page or an empty one, with a total of 150, of
\* 250, of null, or with none.
AnyPage(key, startAt) ==
    LET pages == {Arr([k \in 1..n |-> startAt + k]) : n \in {0, PageSize \div 2, PageSize}}
        totals == {Num(150), Num(250), Null}
    IN  {Obj(IF key = "issues" THEN [issues |-> page] ELSE [values |-> page]) :
             page \in pages}
          \cup {Obj(IF key = "issues" THEN [total |-> t, issues |-> page]
                    ELSE [total |-> t, values |-> page]) : page \in pages, t \in totals}

\* _paginate called on its own against such a source.
PaginateAny ==
    /\ NewCall => Len(reqs) < MaxPages
    /\ PaginateOn(AnyPage(cmd.key, param.v))

I1 == Issue(KeyA, 1)

I2 == Issue(KeyB, 3)

I3 == Issue(KeyA, 2)

Pages == {<<>>, <<I1>>, <<I2, I3>>}

\* What the search endpoint may answer: a page of issues, with a
\* nextPageToken or without one.  search_issues called on its own meets two
\* tokens; within an export run the source hands out one.
SearchBodies(tokens) ==
    {Obj([issues |-> Arr(page)]) : page \in Pages}
      \cup {Obj([issues |-> Arr(page), nextPageToken |-> tok]) :
                page \in Pages, tok \in tokens}

TokensMet == IF cmd.name = "search" THEN {W("t1"), W("t2")} ELSE {W("t1")}

\* A variant of SearchDone that goes on after an empty page.
SearchDone_TokenOnly(next_page_token, page) == ~Truthy(next_page_token)

\* search_issues' `if not next_page_token or not issues: break`
SearchDone(next_page_token, page) == ~Truthy(next_page_token) \/ page = <<>>

\* The comments the source holds for an issue.
CommentsFor(issue) == (CHOOSE s \in Snapshots : s.issue = issue).comments

\* JiraDatabase(db_path) on the committed store, Null standing for no file:
\* sqlite3.connect creates the file, _create_tables creates what is not
\* there and commits; the connection then sees the committed store.
Open(committed) == IF committed = Null THEN EmptyDb ELSE committed

\* A variant of OpensStore in which export_to_db opens the store before it
\* searches.
OpensStore_Before(stop, all_issues) == cmd.name = "export"

\* export_to_db reaches `db = JiraDatabase(db_path)`: search_issues has
\* returned, and not the empty list.
OpensStore(stop, all_issues) == stop /\ cmd.name = "export" /\ all_issues # <<>>

\* search_issues, called on its own or by export_to_db: one response of the
\* search endpoint.  In export_to_db, when search_issues returns no issue the
\* call returns 0; else it opens the store and starts on the records; an
\* HTTPError leaves through main's except clause, which exits with status 1.
SearchOn(bodies) ==
    /\ pc = "search"
    /\ NewCall => Len(reqs) < MaxRequests
    /\ \E status \in Statuses, body \in bodies :
        LET c == _api_get("search_issues", status, body)
            data == c.result
            page == GetD(data, "issues", Arr(<<>>)).v
            all_issues == acc \o page
            next_page_token == Get(data, "nextPageToken")
            stop == SearchDone(next_page_token, page)
        IN  /\ call' = c
            /\ IF c.outcome = "return"
               THEN /\ reqs' = Answered(Logged, data)
                    /\ acc' = all_issues
                    /\ param' = next_page_token
                    /\ issues' = IF stop THEN Returned(all_issues) ELSE issues
                    /\ pc' = IF ~stop THEN pc
                             ELSE IF cmd.name = "search" THEN "returned"
                             ELSE IF all_issues = <<>> THEN "exit0" ELSE "comments"
                    /\ ret' = IF ~stop THEN ret
                              ELSE IF cmd.name = "search" THEN Returned(all_issues)
                              ELSE IF all_issues = <<>> THEN Returned(0) ELSE ret
                    /\ disk' = IF OpensStore(stop, all_issues) THEN Open(disk) ELSE disk
                    /\ conn' = IF OpensStore(stop, all_issues) THEN Open(disk) ELSE conn
               ELSE /\ reqs' = Logged
                    /\ pc' = CASE c.outcome = "retry" -> pc
                               [] c.outcome = "exit"  -> "exit1"
                               [] c.outcome = "raise" ->
                                     IF cmd.name = "search" THEN "raised" ELSE "exit1"
                    /\ UNCHANGED <<acc, param, issues, ret, conn, disk>>
    /\ UNCHANGED <<clock, last, cmd, total, idx>>

\* search_issues against a source that answers as it likes.
SearchIssues == SearchOn(SearchBodies(TokensMet))

\* export_to_db's loop body for the record issues[i]: process_issue, whose
\* get_issue_comments awaits the comment endpoint's response, and
\* db.insert_ticket(processed); after the last record get_stats, close and
\* return.  An IntegrityError of insert_ticket is caught nowhere.
GetIssueComments ==
    /\ pc = "comments"
    /\ \E status \in Statuses :
        LET issue == issues.value[idx + 1]
            c == _api_get("get_issue_comments", status,
                          Obj([comments |-> Arr(CommentsFor(issue))]))
            swallowed == ExceptHTTPError(c.outcome)
            comments == IF swallowed THEN <<>> ELSE GetD(c.result, "comments", Arr(<<>>)).v
            ticket == process_issue(issue, comments, clock)
            r == insert_ticket(conn, ticket)
        IN  /\ call' = c
            /\ IF c.outcome = "return" \/ swallowed
               THEN /\ conn' = r.db
                    /\ disk' = Commit(r, disk)
                    /\ last' = [op |-> "insert_ticket", ok |-> r.ok, issue |-> issue,
                                comments |-> comments, ticket |-> ticket, before |-> conn]
                    /\ clock' = clock + 1
                    /\ idx' = IF r.ok THEN idx + 1 ELSE idx
                    /\ pc' = IF ~r.ok THEN "crashed"
                             ELSE IF idx + 1 = Len(issues.value) THEN "exit0" ELSE pc
                    /\ ret' = IF r.ok /\ idx + 1 = Len(issues.value)
                              THEN Returned(Len(issues.value)) ELSE ret
               ELSE /\ pc' = IF c.outcome = "retry" THEN pc ELSE "exit1"
                    /\ UNCHANGED <<storeVars, idx, ret>>
    /\ UNCHANGED <<cmd, reqs, param, acc, total, issues>>

Command(name, key, T) == [name |-> name, key |-> key, T |-> T]

\* A fresh process, or a fresh call of the method, with an empty store.
Start(c) ==
    /\ conn = EmptyDb
    /\ disk = EmptyDb
    /\ clock = 0
    /\ last = NoCall
    /\ cmd = c
    /\ pc = CASE c.name \in {"export", "search"} -> "search"
              [] c.name = "paginate" -> "paginate"
              [] OTHER -> "test_connection"
    /\ call = NoApiCall
    /\ reqs = <<>>
    /\ param = IF c.name = "paginate" THEN Num(0) ELSE Null
    /\ acc = <<>>
    /\ total = Null
    /\ issues = NotReturned
    /\ idx = 0
    /\ ret = NotReturned

\* main with --test, with --list-projects or with --jql ... --db, and
\* search_issues called on its own.
Init == \E n \in {"test", "list_projects", "export", "search"} : Start(Command(n, "", 0))

Next == TestConnection \/ ListProjects \/ SearchIssues \/ GetIssueComments

Spec == Init /\ [][Next]_vars

\* _paginate called on its own against an honest offset source of T records.
InitPaginate ==
    \E key \in {"values", "issues"}, T \in 0..MaxTotal : Start(Command("paginate", key, T))

NextPaginate == Paginate

SpecPaginate == InitPaginate /\ [][NextPaginate]_vars

\* _paginate called on its own against a source that answers as it likes.
InitPaginateAny == \E key \in {"values", "issues"} : Start(Command("paginate", key, 0))

NextPaginateAny == PaginateAny

SpecPaginateAny == InitPaginateAny /\ [][NextPaginateAny]_vars

MaxSmallTotal == 3

\* What an offset source of small pages may answer for a startAt: no
\* record, one or two, with a total of 1, of MaxSmallTotal, or with none.
SmallPage(key, startAt) ==
    LET pages == {Arr([k \in 1..n |-> startAt + k]) : n \in 0..2}
        totals == {Num(1), Num(MaxSmallTotal)}
    IN  {Obj(IF key = "issues" THEN [issues |-> page] ELSE [values |-> page]) :
             page \in pages}
          \cup {Obj(IF key = "issues" THEN [total |-> t, issues |-> page]
                    ELSE [total |-> t, values |-> page]) : page \in pages, t \in totals}

\* _paginate called on its own against such a source; the model follows it
\* for MaxSmallTotal + 1 requests.
PaginateSmall ==
    /\ NewCall => Len(reqs) < MaxSmallTotal + 1
    /\ PaginateOn(SmallPage(cmd.key, param.v))

NextPaginateSmall == PaginateSmall

SpecPaginateSmall == InitPaginateAny /\ [][NextPaginateSmall]_vars

\* A paginated fetch called on its own: _paginate against a source that
\* answers as it likes, or search_issues.
InitFetch == InitPaginateAny \/ Start(Command("search", "", 0))

NextFetch == PaginateAny \/ SearchIssues

SpecFetch == InitFetch /\ [][NextFetch]_vars

\* Cursor sources that answer a request by its nextPageToken alone: the
\* pages each holds, handed out in order.
CursorSources == <<<<<<I1>>, <<I2, I3>>, <<I1>>>>, <<<<I2, I3>>>>, <<<<I1>>, <<I2>>>>>>

\* The token a cursor source gives with its page n - 1 and takes for page n.
CursorTokens == <<Null, W("t1"), W("t2")>>

\* The response body of cursor source k for a nextPageToken.
CursorPage(k, token) ==
    LET pages == CursorSources[k]
        n == CHOOSE i \in DOMAIN CursorTokens : CursorTokens[i] = token
    IN  Obj(IF n < Len(pages)
            THEN [issues |-> Arr(pages[n]), nextPageToken |-> CursorTokens[n + 1]]
            ELSE [issues |-> Arr(pages[n])])

\* The offset totals and the cursor sources a fetch is run against.
RetryTotals == {0, PageSize, PageSize + PageSize \div 2, MaxTotal}

\* _paginate against the honest offset source, or search_issues against a
\* cursor source, either of which may answer any request with 429 or with
\* another error status.
InitRetry ==
    \/ \E key \in {"values", "issues"}, T \in RetryTotals : Start(Command("paginate", key, T))
    \/ \E k \in DOMAIN CursorSources : Start(Command("search", "", k))

\* search_issues against the cursor source of the call.
SearchSource == SearchOn({CursorPage(cmd.T, param)})

NextRetry == Paginate \/ SearchSource

SpecRetry == InitRetry /\ [][NextRetry]_vars

----------------------------------------------------------------------------
(* The scraper's pure methods, each called once on an argument. *)

\* A call of method `name` on `arg` about to be made; nothing else is going on.
PureCall(name, arg) ==
    /\ conn = EmptyDb
    /\ disk = EmptyDb
    /\ clock = 0
    /\ last = NoCall
    /\ cmd = [name |-> name, arg |-> arg]
    /\ pc = "call"
    /\ call = NoApiCall
    /\ reqs = <<>>
    /\ param = Null
    /\ acc = <<>>
    /\ total = Null
    /\ issues = NotReturned
    /\ idx = 0
    /\ ret = NotReturned

\* The call ends: it returns a value, or an exception leaves it.
PureReturn(raises, value) ==
    /\ pc' = IF raises THEN "raised" ELSE "returned"
    /\ ret' = IF raises THEN NotReturned ELSE Returned(value)
    /\ UNCHANGED <<storeVars, cmd, call, reqs, param, acc, total, issues, idx>>

MaxContent == 2

MaxNest == 20

Text(w) == Obj([type |-> W("text"), text |-> W(w)])

HardBreak == Obj([type |-> W("hardBreak")])

Mention(attrs) == Obj([type |-> W("mention"), attrs |-> attrs])

\* Nodes without content: texts, a text without text, a hardBreak, mentions
\* with a display text, without one, without attrs and with attrs null, a
\* node of unknown type and a node without type.
Leaves ==
    {Text("hi"), Text("bye"), Obj([type |-> W("text")]), HardBreak,
     Mention(Obj([id |-> W("u1"), text |-> W("bob")])), Mention(Obj([id |-> W("u1")])),
     Obj([type |-> W("mention")]), Mention(Null),
     Obj([type |-> W("emoji")]), Obj([version |-> Num(1)])}

SeqsUpTo(S, n) == UNION {[1..k -> S] : k \in 0..n}

\* A node with content, of a type the flattener does not know or of none.
Parents(contents) ==
    {Obj([type |-> W("paragraph"), content |-> Arr(c)]) : c \in contents}
      \cup {Obj([content |-> Arr(c)]) : c \in contents}

HiBye == Obj([type |-> W("doc"), content |-> Arr(<<Text("hi"), HardBreak, Text("bye")>>)])

\* A text under n levels of content.
RECURSIVE Chain(_)
Chain(n) == IF n = 0 THEN Text("hi")
            ELSE Obj([type |-> W("paragraph"), content |-> Arr(<<Chain(n - 1)>>)])

Level1 == Parents(SeqsUpTo(Leaves, MaxContent))

Level2 ==
    Parents(SeqsUpTo({Text("bye"), HardBreak, Mention(Null),
                      Obj([type |-> W("paragraph"), content |-> Arr(<<>>)]),
                      Obj([type |-> W("text"), text |-> W("hi"),
                           content |-> Arr(<<HardBreak, Text("bye")>>)]),
                      Obj([content |-> Arr(<<Mention(Obj([id |-> W("u1")])), Text("hi")>>)])},
                     MaxContent))

NodeTrees == Leaves \cup Level1 \cup Level2 \cup {HiBye, Doc1} \cup {Chain(n) : n \in {1, 3, MaxNest}}

InitFlatten == \E adf \in NodeTrees : PureCall("_adf_to_text", adf)

\* _adf_to_text(adf)
AdfToText ==
    /\ pc = "call"
    /\ cmd.name = "_adf_to_text"
    /\ PureReturn(_adf_to_text_raises(cmd.arg), Str(_adf_to_text(cmd.arg)))

NextFlatten == AdfToText

SpecFlatten == InitFlatten /\ [][NextFlatten]_vars

\* Values that are no dict: strings and scalars.
Scalars == {Num(5), Num(0), Bool(TRUE), Null}

FormLeaves == Scalars \cup {W("hi"), Str(<<>>), Text("bye"), HardBreak}

\* The node forms at the top level and inside content: a string, a scalar,
\* a list, a list in a list, and a dict whose content holds them.
NodeForms ==
    LET elements == FormLeaves \cup {Arr(<<W("hi"), Num(5)>>)}
        lists == {Arr(c) : c \in SeqsUpTo(elements, MaxContent)}
    IN  FormLeaves \cup lists
          \cup {Obj([type |-> W("doc"), content |-> l]) : l \in lists}
          \cup {Obj([content |-> x]) : x \in {W("hi"), Num(5), Text("bye")}}

InitForms == \E adf \in NodeForms : PureCall("_adf_to_text", adf)

NextForms == AdfToText

SpecForms == InitForms /\ [][NextForms]_vars

MaxVaried == 2

EmptyDict == Obj([k \in {} |-> Null])

ObjectFields == {"status", "priority", "issuetype", "project", "resolution", "parent"}

ListFields == {"components", "fixVersions", "versions", "subtasks", "issuelinks"}

\* A nested field as the search endpoint sends it when the issue has one.
FullField(f) ==
    CASE f = "status" -> Obj([name |-> W("Open"), statusCategory |-> Obj([name |-> W("To Do")])])
      [] f = "priority" -> Obj([name |-> W("High")])
      [] f = "issuetype" -> Obj([name |-> W("Bug"), subtask |-> Bool(FALSE)])
      [] f = "project" -> Obj([key |-> W("A"), name |-> W("Proj")])
      [] f = "resolution" -> Obj([name |-> W("Fixed")])
      [] f = "parent" -> Obj([key |-> W("P1"), fields |-> Obj([summary |-> W("epic")])])
      [] f \in {"components", "fixVersions", "versions"} -> Arr(<<Obj([name |-> W("n1")])>>)
      [] f = "subtasks" -> Arr(<<Obj([key |-> W("S1"), fields |-> Obj([summary |-> W("sub")])])>>)
      [] f = "issuelinks" -> Arr(<<Obj([type |-> Obj([name |-> W("Blocks")]),
                                        outwardIssue |-> Obj([key |-> W("X1")])])>>)

\* The same field with null one level down.
HollowField(f) ==
    CASE f = "status" -> Obj([name |-> W("Open"), statusCategory |-> Null])
      [] f = "priority" -> Obj([name |-> Null])
      [] f = "issuetype" -> Obj([name |-> Null, subtask |-> Null])
      [] f = "project" -> Obj([key |-> Null, name |-> Null])
      [] f = "resolution" -> Obj([name |-> Null])
      [] f = "parent" -> Obj([key |-> W("P1"), fields |-> Null])
      [] f \in {"components", "fixVersions", "versions"} -> Arr(<<Obj([name |-> Null])>>)
      [] f = "subtasks" -> Arr(<<Obj([key |-> W("S1"), fields |-> Null])>>)
      [] f = "issuelinks" -> Arr(<<Obj([type |-> Null, inwardIssue |-> Null])>>)

Shapes == {"missing", "null", "empty", "hollow"}

FieldValue(f, shape) ==
    CASE shape = "null" -> Null
      [] shape = "empty" -> IF f \in ObjectFields THEN EmptyDict ELSE Arr(<<>>)
      [] shape = "hollow" -> HollowField(f)
      [] OTHER -> FullField(f)

\* A raw issue whose nested fields are all there but the ones of `shape`.
IssueWith(shape) ==
    LET there == {f \in ObjectFields \cup ListFields :
                      f \notin DOMAIN shape \/ shape[f] # "missing"}
        value(f) == FieldValue(f, IF f \in DOMAIN shape THEN shape[f] ELSE "full")
    IN  Obj([key |-> KeyA, id |-> W("10"),
             fields |-> Obj([f \in there |-> value(f)]
                              @@ [summary |-> W("alpha"), updated |-> W("d1")])])

RawIssues ==
    {IssueWith(shape) :
        shape \in UNION {[F -> Shapes] :
                            F \in {F \in SUBSET (ObjectFields \cup ListFields) :
                                      Cardinality(F) <= MaxVaried}}}

InitNormalize ==
    \E issue \in RawIssues, comments \in {<<>>, CommentsOf(1)} :
        PureCall("process_issue", [issue |-> issue, comments |-> comments])

\* process_issue(issue), get_issue_comments having returned `comments`.
ProcessIssue ==
    /\ pc = "call"
    /\ cmd.name = "process_issue"
    /\ PureReturn(process_issue_raises(cmd.arg.issue, cmd.arg.comments),
                  process_issue(cmd.arg.issue, cmd.arg.comments, clock))

NextNormalize == ProcessIssue

SpecNormalize == InitNormalize /\ [][NextNormalize]_vars

\* Objects a custom field holds, alone or as elements of a list.
CustomObjects ==
    {Obj([value |-> x]) : x \in {Num(0), Str(<<>>), Bool(FALSE), W("v"), Null}}
      \cup {Obj([value |-> x, name |-> W("n")]) : x \in {Num(0), W("v"), Null}}
      \cup {Obj([name |-> W("n")]), Obj([name |-> Str(<<>>)]), Obj([id |-> Num(7)])}

CustomScalars == {Num(0), Num(5), Str(<<>>), W("s"), Bool(FALSE), Bool(TRUE)}

CustomValues ==
    CustomObjects \cup CustomScalars \cup {Null}
      \cup {Arr(xs) : xs \in SeqsUpTo(CustomObjects, MaxContent)}
      \cup {Arr(<<Num(1), Num(2)>>), Arr(<<W("s"), Obj([value |-> W("v")])>>),
            Arr(<<Obj([value |-> W("v")]), W("s")>>)}

InitCustom ==
    \E v1 \in CustomValues, v2 \in {Null, Num(5), Obj([name |-> W("n")])} :
        PureCall("_extract_custom_fields",
                 Obj([customfield_10001 |-> v1, customfield_10002 |-> v2,
                      summary |-> W("alpha"), labels |-> Arr(<<W("x")>>)]))

\* _extract_custom_fields(fields)
ExtractCustomFields ==
    /\ pc = "call"
    /\ cmd.name = "_extract_custom_fields"
    /\ PureReturn(_extract_custom_fields_raises(cmd.arg), _extract_custom_fields(cmd.arg))

NextCustom == ExtractCustomFields

SpecCustom == InitCustom /\ [][NextCustom]_vars

----------------------------------------------------------------------------
(* QueryFederator: jira_viewer.py.  A request reads the stores of            *)
(* app.config["DATABASES"], in that order, and writes nothing.  A store is   *)
(* a database and whether it has the tickets_fts table.  What the handlers   *)
(* pass to the templates is their result; get_stats and get_filter_options   *)
(* only read and are left out of it.                                         *)

per_page == 50

Whitespace == {" ", "\t", "\n"}

\* Characters an FTS5 bareword cannot hold.
NotBareword == {"-", "@", "\"", "*"}

\* Python's str order on the atoms that timestamps are made of.
AtomCode(a) ==
    CASE a = "2024-01-01" -> 1
      [] a = "2024-03-01" -> 2
      [] a = "2024-06-01" -> 3
      [] a = "t1" -> 4
      [] a = "t2" -> 5
      [] a = "t3" -> 6
      [] OTHER -> 0

\* a < b for two texts
RECURSIVE TextLess(_, _)
TextLess(a, b) ==
    IF b = <<>> THEN FALSE
    ELSE IF a = <<>> THEN TRUE
    ELSE IF AtomCode(Head(a)) # AtomCode(Head(b)) THEN AtomCode(Head(a)) < AtomCode(Head(b))
    ELSE TextLess(Tail(a), Tail(b))

\* x.get(f) or "": the sort key of search, and of ORDER BY on a text column
\* (NULL first, as the empty text is)
TextKey(x) == IF x.t = "str" THEN x.v ELSE <<>>

\* A stable sort of rows by the text of column f: ascending, or descending
\* as list.sort(reverse=True) does it, rows of equal keys staying in their order.
SortedBy(s, f, descending) ==
    LET key(i) == TextKey(s[i][f])
        before(j, i) == IF descending THEN TextLess(key(i), key(j))
                        ELSE TextLess(key(j), key(i))
        pos == [i \in DOMAIN s |->
                   1 + Cardinality({j \in DOMAIN s : before(j, i) \/ (j < i /\ ~before(i, j))})]
    IN  [p \in DOMAIN s |-> s[CHOOSE i \in DOMAIN s : pos[i] = p]]

\* A variant of SortByUpdated that leaves the merged list as it is.
SortByUpdated_Unsorted(all_tickets) == all_tickets

\* all_tickets.sort(key=lambda x: x.get("updated") or "", reverse=True)
SortByUpdated(all_tickets) == SortedBy(all_tickets, "updated", TRUE)

\* The rows of a set in rowid order, as a scan of the table yields them.
ByRowid(rows) ==
    LET pos == [r \in rows |-> 1 + Cardinality({o \in rows : o.rowid < r.rowid})]
    IN  [p \in 1..Cardinality(rows) |-> CHOOSE r \in rows : pos[r] = p]

\* The columns search selects.
Summary(row) ==
    [key |-> row.key, summary |-> row.summary, status |-> row.status,
     status_category |-> row.status_category, issue_type |-> row.issue_type,
     project_key |-> row.project_key, updated |-> row.updated]

Contains(s, sub) ==
    \E k \in 0..(Len(s) - Len(sub)) : SubSeq(s, k + 1, k + Len(sub)) = sub

\* fts_query = f'"{query}"' if ' ' in query else f'{query}*'
FtsQueryString(query) ==
    IF " " \in Range(query) THEN <<"\"">> \o query \o <<"\"">> ELSE Append(query, "*")

\* tickets_fts MATCH fts_query, for the two forms search builds.  A quoted
\* string is a phrase: its tokens, adjacent and in order, in one column.  A
\* bareword string is split at whitespace into terms that must all occur,
\* each in any column, the last as a prefix; with no term, or with a
\* character a bareword cannot hold, the statement fails (OperationalError).
\* The result: whether it failed, and the index entries that match.
FtsMatch(db, fts_query) ==
    LET quoted == Head(fts_query) = "\""
        inner == IF quoted THEN SubSeq(fts_query, 2, Len(fts_query) - 1)
                 ELSE SubSeq(fts_query, 1, Len(fts_query) - 1)
        phrase == Split(Fold(inner), Separators, <<>>)
        terms == Split(Fold(inner), Whitespace, <<>>)
        tokens(e) == Range(e.cols[1]) \cup Range(e.cols[2]) \cup Range(e.cols[3])
        hasPhrase(e) == phrase # <<>> /\ \E c \in 1..3 : Contains(e.cols[c], phrase)
        hasTerms(e) ==
            /\ \A n \in 1..(Len(terms) - 1) : terms[n] \in tokens(e)
            /\ \E tok \in tokens(e) : IsPrefix(terms[Len(terms)], tok)
        failed == IF quoted THEN \E a \in Range(inner) : a = "\""
                  ELSE terms = <<>> \/ \E a \in Range(inner) : a \in NotBareword
    IN  IF failed THEN [error |-> TRUE, entries |-> {}]
        ELSE [error |-> FALSE,
              entries |-> {e \in db.tickets_fts : IF quoted THEN hasPhrase(e) ELSE hasTerms(e)}]

\* column LIKE '%query%': the folded query is a piece of the folded column
\* text (the atoms of the model hold neither % nor _).
Like(x, query) == x.t = "str" /\ Contains(Fold(x.v), Fold(query))

\* A variant of Filtered without the issue type.
Filtered_NoType(row, req) ==
    /\ req.status # <<>> => row.status = Str(req.status)
    /\ req.project # <<>> => row.project_key = Str(req.project)

\* The exact-match predicates for the filters of the request that are not empty.
Filtered(row, req) ==
    /\ req.status # <<>> => row.status = Str(req.status)
    /\ req.project # <<>> => row.project_key = Str(req.project)
    /\ req.issue_type # <<>> => row.issue_type = Str(req.issue_type)

\* The body of search's loop for one store: the rows the store's statement
\* yields, or its failure.  In the full-text path the join reads fts.key of
\* each matching index entry from the tickets row of its rowid, and fails
\* when that row is gone (see FtsQuery).
SearchStore(store, req) ==
    IF req.q # <<>> /\ store.has_fts
    THEN LET m == FtsMatch(store.db, FtsQueryString(req.q))
             live(e) == \E r \in store.db.tickets : r.rowid = e.rowid
             keys == {r.key : r \in {r \in store.db.tickets :
                                        \E e \in m.entries : e.rowid = r.rowid}}
         IN  IF m.error \/ \E e \in m.entries : ~live(e)
             THEN [error |-> TRUE, rows |-> <<>>]
             ELSE [error |-> FALSE,
                   rows |-> ByRowid({r \in store.db.tickets : r.key \in keys /\ Filtered(r, req)})]
    ELSE [error |-> FALSE,
          rows |-> ByRowid({r \in store.db.tickets :
                               /\ req.q # <<>> => (Like(r.key, req.q) \/ Like(r.summary, req.q)
                                                    \/ Like(r.description, req.q))
                               /\ Filtered(r, req)})]

\* all_tickets after the loop over the stores.
AllTickets(dbs, req) ==
    Flatten([n \in DOMAIN dbs |-> SeqMap(Summary, SearchStore(dbs[n], req).rows)])

\* A variant of TotalPages that rounds down.
TotalPages_Floor(count) == count \div per_page

\* total_pages = (total + per_page - 1) // per_page
TotalPages(count) == (count + per_page - 1) \div per_page

\* s[i:j] of a Python list
Slice(s, i, j) ==
    LET clamp(k) == IF k < 0 THEN (IF Len(s) + k < 0 THEN 0 ELSE Len(s) + k)
                    ELSE IF k > Len(s) THEN Len(s) ELSE k
    IN  IF clamp(i) < clamp(j) THEN SubSeq(s, clamp(i) + 1, clamp(j)) ELSE <<>>

\* search(): what it hands to the template, or the failure of a statement.
search(dbs, req) ==
    LET sorted == SortByUpdated(AllTickets(dbs, req))
        offset == (req.page - 1) * per_page
    IN  [tickets |-> Slice(sorted, offset, offset + per_page),
         total_pages |-> TotalPages(Len(sorted)),
         page |-> req.page]

search_raises(dbs, req) == \E n \in DOMAIN dbs : SearchStore(dbs[n], req).error

Holds(store, ticket_key) == \E r \in store.db.tickets : r.key = Str(ticket_key)

\* A variant of get_db_for_ticket that keeps looking after a match.
get_db_for_ticket_Last(dbs, ticket_key) ==
    IF \E n \in DOMAIN dbs : Holds(dbs[n], ticket_key)
    THEN CHOOSE n \in DOMAIN dbs :
            Holds(dbs[n], ticket_key) /\ \A o \in DOMAIN dbs : Holds(dbs[o], ticket_key) => o <= n
    ELSE 0

\* get_db_for_ticket: the position of the first store holding the key, 0 for None.
get_db_for_ticket(dbs, ticket_key) ==
    IF \E n \in DOMAIN dbs : Holds(dbs[n], ticket_key)
    THEN CHOOSE n \in DOMAIN dbs :
            Holds(dbs[n], ticket_key) /\ \A o \in DOMAIN dbs : Holds(dbs[o], ticket_key) => n <= o
    ELSE 0

\* ticket_detail(key): 404, or the ticket row, its comments by created
\* ascending and its changelog by created descending, of the store found.
ticket_detail(dbs, ticket_key) ==
    LET n == get_db_for_ticket(dbs, ticket_key)
        db == dbs[n].db
        of(r) == r.ticket_key = Str(ticket_key)
    IN  IF n = 0 THEN [status |-> 404]
        ELSE [status |-> 200,
              ticket |-> CHOOSE r \in db.tickets : r.key = Str(ticket_key),
              comments |-> SortedBy(SelectSeq(db.comments, of), "created", FALSE),
              changelog |-> SortedBy(SelectSeq(db.changelog, of), "created", TRUE)]

MaxStores == 2

MaxTickets == 101

\* An issue of the source with the fields the viewer's queries read.
ViewIssue(key, summary, updated, status) ==
    Obj([key |-> key, id |-> W("10"),
         fields |-> Obj([summary |-> Str(summary), description |-> W("delta"),
                         status |-> Obj([name |-> W(status)]),
                         issuetype |-> Obj([name |-> W("Bug")]),
                         project |-> Obj([key |-> Str(<<key.v[1]>>), name |-> W("Proj")])]
                          @@ (IF updated = "" THEN <<>> ELSE [updated |-> W(updated)])),
         changelog |-> Obj([histories |-> Arr(<<
            Obj([created |-> W("t1"), items |-> Arr(<<Item("status", W("Open"), Str(summary))>>)]),
            Obj([created |-> W("t3"), items |-> Arr(<<Item("status", Str(summary), W(status))>>)])>>)])])

ViewComment(id, created) ==
    Obj([id |-> W(id), body |-> W(id), created |-> W(created)])

\* The store a run of export_to_db leaves for these source snapshots.
RECURSIVE Ingest(_, _)
Ingest(db, snapshots) ==
    IF snapshots = <<>> THEN db
    ELSE IF Len(snapshots) = 1
         THEN insert_ticket(db, process_issue(snapshots[1].issue, snapshots[1].comments, 0)).db
         ELSE LET half == Len(snapshots) \div 2
              IN  Ingest(Ingest(db, SubSeq(snapshots, 1, half)),
                         SubSeq(snapshots, half + 1, Len(snapshots)))

Snap(issue, comments) == [issue |-> issue, comments |-> comments]

DbA ==
    Ingest(EmptyDb,
           <<Snap(ViewIssue(KeyA, <<"alpha", " ", "beta">>, "2024-01-01", "Open"),
                  <<ViewComment("c1", "t2"), ViewComment("c2", "t1")>>),
             Snap(ViewIssue(Str(<<"A", "-", "2">>), <<"beta", " ", "alpha">>, "2024-03-01", "Done"), <<>>),
             Snap(ViewIssue(Str(<<"A", "-", "3">>), <<"Alpha", "soup">>, "", "Open"), <<>>)>>)

DbB ==
    Ingest(EmptyDb,
           <<Snap(ViewIssue(KeyB, <<"alpha", " ", "beta">>, "2024-06-01", "Open"), <<>>),
             Snap(ViewIssue(Str(<<"B", "-", "3">>), <<"Alpha">>, "2024-03-01", "Done"), <<>>),
             Snap(ViewIssue(KeyA, <<"gamma">>, "2024-06-01", "Done"),
                  <<ViewComment("c9", "t1")>>)>>)

DbJan == Ingest(EmptyDb, <<Snap(ViewIssue(Str(<<"J", "-", "1">>), <<"beta">>, "2024-01-01", "Open"), <<>>)>>)

DbJun == Ingest(EmptyDb, <<Snap(ViewIssue(Str(<<"J", "-", "2">>), <<"beta">>, "2024-06-01", "Open"), <<>>)>>)

\* A store of n tickets without children, their updated values going round
\* three dates: what insert_ticket leaves after n records of distinct keys.
DbBig(n) ==
    LET issue(k) == ViewIssue(Str(<<"K", "-", ToString(k)>>), <<"alpha">>,
                              <<"2024-01-01", "2024-03-01", "2024-06-01">>[(k % 3) + 1], "Open")
        rows == {TicketRow(process_issue(issue(k), <<>>, 0), k) : k \in 1..n}
    IN  [EmptyDb EXCEPT !.tickets = rows,
                        !.changelog = [c \in 1..(2 * n) |->
                            ChangelogRow(Str(<<"K", "-", ToString((c + 1) \div 2)>>),
                                         extract_changelog(issue((c + 1) \div 2)).v[2 - (c % 2)])],
                        !.tickets_fts = {FtsEntry(r) : r \in rows}]

Store(db, has_fts) == [db |-> db, has_fts |-> has_fts]

Stores ==
    {Store(db, has_fts) : db \in {DbA, DbB}, has_fts \in BOOLEAN}
      \cup {Store(DbJan, TRUE), Store(DbJun, TRUE)}

StoreLists == SeqsUpTo(Stores, MaxStores)

BigStoreLists ==
    UNION {{<<Store(DbBig(n), TRUE)>>, <<Store(DbA, TRUE), Store(DbBig(n), FALSE)>>} :
              n \in {per_page - 1, per_page, MaxTickets - 1, MaxTickets}}

Queries ==
    {<<>>, <<"alpha">>, <<"beta">>, <<"soup">>, <<"gamma">>, <<"omega">>,
     <<"alpha", " ", "beta">>, <<"beta", " ", "alpha">>, <<"alpha", "\t", "beta">>,
     <<"A", "-", "1">>}

Request(q, status, project, issue_type, page) ==
    [q |-> q, status |-> status, project |-> project, issue_type |-> issue_type, page |-> page]

Requests ==
    {Request(q, f[1], f[2], f[3], page) :
        q \in Queries, page \in {1, 2},
        f \in {<<<<>>, <<>>, <<>>>>, <<<<"Open">>, <<>>, <<>>>>, <<<<>>, <<"A">>, <<"Bug">>>>}}

InitViewer ==
    \/ \E dbs \in StoreLists, req \in Requests :
          PureCall("search", [dbs |-> dbs, req |-> req])
    \/ \E dbs \in BigStoreLists, page \in -1..4 :
          PureCall("search", [dbs |-> dbs, req |-> Request(<<>>, <<>>, <<>>, <<>>, page)])
    \/ \E dbs \in StoreLists, key \in {KeyA, KeyB, Str(<<"Z", "-", "9">>)} :
          PureCall("ticket_detail", [dbs |-> dbs, key |-> key.v])

\* GET /search
Search ==
    /\ pc = "call"
    /\ cmd.name = "search"
    /\ PureReturn(search_raises(cmd.arg.dbs, cmd.arg.req), search(cmd.arg.dbs, cmd.arg.req))

\* GET /ticket/<key>
TicketDetail ==
    /\ pc = "call"
    /\ cmd.name = "ticket_detail"
    /\ PureReturn(FALSE, ticket_detail(cmd.arg.dbs, cmd.arg.key))

NextViewer == Search \/ TicketDetail

SpecViewer == InitViewer /\ [][NextViewer]_vars

\* An issue with another issue type.
Typed(issue, type) ==
    Obj([issue.v EXCEPT !.fields =
            Obj([@.v EXCEPT !.issuetype = Obj([name |-> W(type)])])])

\* A store whose tickets differ in status, in issue type and in the case of
\* both.
DbT ==
    Ingest(EmptyDb,
           <<Snap(ViewIssue(Str(<<"T", "-", "1">>), <<"alpha">>, "2024-01-01", "Open"), <<>>),
             Snap(Typed(ViewIssue(Str(<<"T", "-", "2">>), <<"alpha", " ", "beta">>, "2024-03-01", "Open"),
                        "Task"), <<>>),
             Snap(Typed(ViewIssue(Str(<<"T", "-", "3">>), <<"alpha">>, "2024-06-01", "Done"),
                        "bug"), <<>>),
             Snap(ViewIssue(Str(<<"T", "-", "4">>), <<"gamma">>, "", "open"), <<>>)>>)

\* DbT after a later run, in which T-1 has another summary.
DbR ==
    Ingest(DbT, <<Snap(ViewIssue(Str(<<"T", "-", "1">>), <<"omega">>, "2024-06-01", "Open"), <<>>)>>)

FilterStores == {Store(db, has_fts) : db \in {DbB, DbT, DbR}, has_fts \in BOOLEAN}

FilterRequests ==
    {Request(q, status, project, issue_type, 1) :
        q \in {<<>>, <<"alpha">>, <<"alpha", " ", "beta">>, <<"omega">>},
        status \in {<<>>, <<"Open">>, <<"open">>},
        project \in {<<>>, <<"B">>},
        issue_type \in {<<>>, <<"Bug">>, <<"bug">>}}

\* GET /search with the filters status, project and type.
InitFilter ==
    \E dbs \in SeqsUpTo(FilterStores, MaxStores), req \in FilterRequests :
        PureCall("search", [dbs |-> dbs, req |-> req])

NextFilter == Search

SpecFilter == InitFilter /\ [][NextFilter]_vars

----------------------------------------------------------------------------
(* An export run that the operating system may end at any point. *)

\* A variant of Durable in which every statement is durable at once.
Durable_Autocommit(committed, seen) == seen

\* What the store file holds after the process ended with the connection's
\* transaction open: sqlite3.connect is called with the default isolation
\* level, so the statements of insert_ticket run in one transaction, which
\* SQLite rolls back when the file is next opened.
Durable(committed, seen) == committed

\* The store an earlier run left: none, or one with KeyB's first variant.
PriorStores ==
    {EmptyDb,
     insert_ticket(EmptyDb, process_issue(Issue(KeyB, 1), CommentsOf(1), 0)).db}

InitTerminate ==
    \E prior \in PriorStores :
        /\ conn = prior
        /\ disk = prior
        /\ clock = 0
        /\ last = NoCall
        /\ cmd = [name |-> "export", key |-> "", T |-> 0, store |-> prior]
        /\ pc = "search"
        /\ call = NoApiCall
        /\ reqs = <<>>
        /\ param = Null
        /\ acc = <<>>
        /\ total = Null
        /\ issues = NotReturned
        /\ idx = 0
        /\ ret = NotReturned

\* The process ends while it awaits a response or sleeps before a retry:
\* between two upserts, before the first or during the search.
Terminate ==
    /\ pc \in {"search", "comments"}
    /\ pc' = "killed"
    /\ disk' = Durable(disk, conn)
    /\ conn' = disk'
    /\ UNCHANGED <<clock, last, cmd, call, reqs, param, acc, total, issues, idx, ret>>

\* The statements of insert_ticket in their order, as far as each got: the
\* stores the connection sees after the INSERT OR REPLACE, after the
\* DELETEs, after the comments and after the last INSERT, before the commit.
UpsertStages(db, ticket) ==
    LET ticket_key == Get(ticket, "key")
        s1 == InsertOrReplace(db, ticket)
        s2 == DeleteChildren(s1, ticket_key)
        s3 == InsertComments(s2, ticket_key, GetD(ticket, "comments", Arr(<<>>)).v).db
    IN  {s1, s2, s3, insert_ticket(db, ticket).db}

\* The process ends inside insert_ticket, before its commit: the comment
\* fetch of the record has ended and the record is normalized.
TerminateInUpsert ==
    /\ pc = "comments"
    /\ \E status \in Statuses :
        LET issue == issues.value[idx + 1]
            c == _api_get("get_issue_comments", status,
                          Obj([comments |-> Arr(CommentsFor(issue))]))
            swallowed == ExceptHTTPError(c.outcome)
            comments == IF swallowed THEN <<>> ELSE GetD(c.result, "comments", Arr(<<>>)).v
            ticket == process_issue(issue, comments, clock)
        IN  /\ c.outcome = "return" \/ swallowed
            /\ call' = c
            /\ \E seen \in UpsertStages(conn, ticket) : disk' = Durable(disk, seen)
            /\ conn' = disk'
            /\ last' = [op |-> "insert_ticket", ok |-> FALSE, issue |-> issue,
                        comments |-> comments, ticket |-> ticket, before |-> disk]
            /\ pc' = "killed"
    /\ UNCHANGED <<clock, cmd, reqs, param, acc, total, issues, idx, ret>>

NextTerminate == SearchIssues \/ GetIssueComments \/ Terminate \/ TerminateInUpsert

SpecTerminate == InitTerminate /\ [][NextTerminate]_vars

\* export_to_db on a destination that does not exist yet, or on a store an
\* earlier run left; no connection is open when it starts.
InitExport ==
    \E prior \in PriorStores \cup {Null} :
        /\ conn = Null
        /\ disk = prior
        /\ clock = 0
        /\ last = NoCall
        /\ cmd = [name |-> "export", key |-> "", T |-> 0, store |-> prior]
        /\ pc = "search"
        /\ call = NoApiCall
        /\ reqs = <<>>
        /\ param = Null
        /\ acc = <<>>
        /\ total = Null
        /\ issues = NotReturned
        /\ idx = 0
        /\ ret = NotReturned

NextExport == SearchIssues \/ GetIssueComments

SpecExport == InitExport /\ [][NextExport]_vars

----------------------------------------------------------------------------
(* The wait of _api_get after a 429: one pass of the retry loop, called on *)
(* the response's headers and the attempt index.                          *)

MaxRetryAfter == 20

Digits == <<"0", "1", "2", "3", "4", "5", "6", "7", "8", "9">>

DigitValue(c) == (CHOOSE d \in DOMAIN Digits : Digits[d] = c) - 1

\* The decimal numeral a server writes for a number of seconds.
RECURSIVE Decimal(_)
Decimal(n) ==
    IF n < 0 THEN <<"-">> \o Decimal(0 - n)
    ELSE IF n < 10 THEN <<Digits[n + 1]>>
    ELSE Decimal(n \div 10) \o <<Digits[(n % 10) + 1]>>

\* The value of a string of decimal digits, read from the left.
RECURSIVE DigitsValue(_, _)
DigitsValue(text, sofar) ==
    IF text = <<>> THEN sofar
    ELSE DigitsValue(Tail(text), 10 * sofar + DigitValue(Head(text)))

\* int(x) raises ValueError for a string that is no optionally signed run of
\* decimal digits.
int_raises(x) ==
    /\ x.t = "str"
    /\ LET body == IF x.v # <<>> /\ Head(x.v) \in {"-", "+"} THEN Tail(x.v) ELSE x.v
       IN  body = <<>> \/ \E i \in DOMAIN body : body[i] \notin Range(Digits)

\* int(x) for an int and for a string
int(x) ==
    IF x.t = "num" THEN x.v
    ELSE IF x.v # <<>> /\ Head(x.v) = "-" THEN 0 - DigitsValue(Tail(x.v), 0)
    ELSE IF x.v # <<>> /\ Head(x.v) = "+" THEN DigitsValue(Tail(x.v), 0)
    ELSE DigitsValue(x.v, 0)

Max(a, b) == IF a >= b THEN a ELSE b

\* A variant of wait_time with no exponential floor.
wait_time_HeaderOnly(headers, attempt) == int(GetD(headers, "Retry-After", Num(10)))

\* retry_after = int(response.headers.get("Retry-After", 10))
\* wait_time = max(retry_after, 2 ** attempt)
wait_time(headers, attempt) ==
    Max(int(GetD(headers, "Retry-After", Num(10))), 2 ^ attempt)

wait_time_raises(headers) == int_raises(GetD(headers, "Retry-After", Num(10)))

\* The headers of a 429 response: no Retry-After; a number of seconds, what
\* the server meant kept beside it; or an HTTP-date, the header's other form.
RetryHeaders ==
    {[headers |-> EmptyObj, suggested |-> Null]}
      \cup {[headers |-> Obj([k \in {"Retry-After"} |-> Str(Decimal(n))]), suggested |-> Num(n)] :
                n \in 0..MaxRetryAfter}
      \cup {[headers |-> Obj([k \in {"Retry-After"} |-> Str(<<"W", "e", "d">>)]),
              suggested |-> Str(<<"W", "e", "d">>)]}

InitWait ==
    \E h \in RetryHeaders, attempt \in 0..(max_retries - 1) :
        PureCall("wait_time", [headers |-> h.headers, suggested |-> h.suggested,
                               attempt |-> attempt])

\* The pass of the loop on a 429: the seconds handed to time.sleep, or the
\* ValueError of int.
WaitTime ==
    /\ pc = "call"
    /\ cmd.name = "wait_time"
    /\ PureReturn(wait_time_raises(cmd.arg.headers),
                  Num(wait_time(cmd.arg.headers, cmd.arg.attempt)))

NextWait == WaitTime

SpecWait == InitWait /\ [][NextWait]_vars

----------------------------------------------------------------------------
(* Claims about the store, under SpecStore *)

ChildrenOf(rows, ticket_key) == SelectSeq(rows, LAMBDA r : r.ticket_key = ticket_key)

RowsOf(db, ticket_key) == {r \in db.tickets : r.key = ticket_key}

ListLen(ticket, f) == Len(GetD(ticket, f, Arr(<<>>)).v)

InsertDone == last.op = "insert_ticket" /\ last.ok

\* The child-row counts a store holds for a key, against a record's.
CountsAre(db, ticket) ==
    LET k == Get(ticket, "key")
    IN  /\ Len(ChildrenOf(db.comments, k)) = ListLen(ticket, "comments")
        /\ Len(ChildrenOf(db.changelog, k)) = ListLen(ticket, "changelog")
        /\ Len(ChildrenOf(db.issue_links, k)) = ListLen(ticket, "links")
        /\ Len(ChildrenOf(db.subtasks, k)) = ListLen(ticket, "subtasks")

\* C1: whenever insert_ticket(r2) has returned, whatever was ingested before
\* it (an r1 of the same key included), the store, as the connection sees it
\* and as committed, holds exactly one tickets row for r2's key, and the
\* numbers of comments, changelog, issue_links and subtasks rows of that key
\* are those of r2.
C1_UpsertIdempotent ==
    InsertDone =>
        /\ disk = conn
        /\ Cardinality(RowsOf(conn, Get(last.ticket, "key"))) = 1
        /\ CountsAre(conn, last.ticket)

\* C1's case: the key was already in the store, with other child counts
\* (those of an earlier r1), and the second insert_ticket has returned.
C1_Witness ==
    /\ InsertDone
    /\ RowsOf(last.before, Get(last.ticket, "key")) # {}
    /\ ~CountsAre(last.before, last.ticket)
    /\ Len(ChildrenOf(last.before.changelog, Get(last.ticket, "key"))) > 0
    /\ ListLen(last.ticket, "changelog") > 0

\* C2: the full-text index is 1:1 with the tickets table: one entry per row,
\* carrying the row's current key, summary and description, and no entry
\* for a row or a text that tickets no longer holds.
C2_FtsOneToOne == conn.tickets_fts = {FtsEntry(r) : r \in conn.tickets}

QueryWords ==
    UNION {Tokenize(Get(GetD(s.issue, "fields", EmptyObj), "summary")) : s \in Snapshots}
      \cup {<<"gamma">>, <<"delta">>, <<"bob">>, <<"A">>, <<"B">>}

\* C3: after insert_ticket(r) a full-text query for a token of r's summary or
\* description returns r's key, and rebuild_fts changes the result of no
\* full-text query.
C3_QueryFindsAndRebuildKeeps ==
    /\ InsertDone =>
          \A q \in Tokenize(Get(last.ticket, "summary"))
                     \cup Tokenize(Get(last.ticket, "description")) :
              /\ ~FtsQuery(conn, q).error
              /\ Get(last.ticket, "key") \in FtsQuery(conn, q).keys
    /\ last.op = "rebuild_fts" =>
          \A q \in QueryWords : FtsQuery(conn, q) = FtsQuery(last.before, q)

\* The rows a store holds for a ticket row's key are the complete data of
\* the normalized record `ticket`.
CompleteFor(db, row, ticket) ==
    LET k == row.key
        rows(F(_, _), f) == LET xs == GetD(ticket, f, Arr(<<>>)).v
                            IN  [i \in DOMAIN xs |-> F(k, xs[i])]
    IN  /\ row = TicketRow(ticket, row.rowid)
        /\ ChildrenOf(db.comments, k) = rows(CommentRow, "comments")
        /\ ChildrenOf(db.changelog, k) = rows(ChangelogRow, "changelog")
        /\ ChildrenOf(db.issue_links, k) = rows(LinkRow, "links")
        /\ ChildrenOf(db.subtasks, k) = rows(SubtaskRow, "subtasks")

\* C4: in every committed state each key has the complete ticket row and
\* children of one ingested record, never a ticket row with old, missing or
\* partly inserted children.
C4_CommittedTicketsComplete ==
    \A row \in disk.tickets :
        \E s \in Snapshots, now \in 0..MaxOps :
            CompleteFor(disk, row, process_issue(s.issue, s.comments, now))

\* C5: the stored record keeps the raw forms: description_raw is the source
\* description, each comment's body_raw the source comment's body, and
\* raw_json the source issue payload.
C5_RawFormsPreserved ==
    InsertDone =>
        LET k == Get(last.ticket, "key")
            stored == ChildrenOf(conn.comments, k)
        IN  /\ Get(last.ticket, "descriptionRaw")
                  = Get(GetD(last.issue, "fields", EmptyObj), "description")
            /\ \A row \in RowsOf(conn, k) :
                  /\ JsonLoads(row.description_raw)
                        = Get(GetD(last.issue, "fields", EmptyObj), "description")
                  /\ JsonLoads(row.raw_json) = last.issue
            /\ Len(stored) = Len(last.comments)
            /\ \A i \in DOMAIN stored :
                  JsonLoads(stored[i].body_raw) = Get(last.comments[i], "body")

----------------------------------------------------------------------------
(* Claims about the client and the run, under Spec and SpecPaginate *)

StatusesOf(c) == [n \in DOMAIN c.responses |-> c.responses[n].status]

All429(c) == \A n \in DOMAIN c.responses : c.responses[n].status = 429

\* C6: one _api_get call makes at most 5 HTTP attempts; while every response
\* is 429 it goes on to the 5th and then exits fatally; on 429 then 200 it
\* has made exactly 2 attempts and returns the second response's body.
C6_RetryBound ==
    /\ Len(call.responses) <= 5
    /\ (call.responses # <<>> /\ All429(call)) =>
          IF Len(call.responses) = 5
          THEN call.outcome = "exit" /\ pc = "exit1" /\ ~ENABLED Next
          ELSE call.outcome = "retry" /\ pc \notin {"exit0", "exit1", "crashed"}
    /\ StatusesOf(call) = <<429, 200>> =>
          /\ call.outcome = "return"
          /\ call.result = call.responses[2].body
          /\ call.result # call.responses[1].body

\* C6's cases: five 429s in one call; and 429 then 200.
C6_Witness ==
    /\ Len(call.responses) = 5
    /\ All429(call)
    /\ call.caller = "search_issues"

\* C7: a 401 or 403 is the last response of its call, whatever came before
\* it; the process has then exited with status 1, sends nothing more, and no
\* caller has produced a result.
C7_AuthFatal ==
    \A n \in DOMAIN call.responses :
        call.responses[n].status \in {401, 403} =>
            /\ n = Len(call.responses)
            /\ call.outcome = "exit"
            /\ pc = "exit1"
            /\ ~ENABLED Next
            /\ ret = NotReturned

\* C7's case: a 403 on the third attempt of the connection test, after two
\* 429 retries.
C7_Witness ==
    /\ StatusesOf(call) = <<429, 429, 403>>
    /\ call.caller = "test_connection"

CommentFetchEnded(outcomes) ==
    call.caller = "get_issue_comments" /\ call.outcome \in outcomes

\* The record whose comment fetch has just ended was processed with no
\* comment and upserted, and the run goes on: to the next record, or to its
\* normal end after the last one.
ProcessedWithoutComments ==
    /\ pc \in {"comments", "exit0"}
    /\ idx >= 1
    /\ last.op = "insert_ticket"
    /\ last.ok
    /\ last.issue = issues.value[idx]
    /\ ListLen(last.ticket, "comments") = 0
    /\ Len(ChildrenOf(disk.comments, Get(last.issue, "key"))) = 0
    /\ (pc = "comments") = (idx < Len(issues.value))

\* C8 as claimed: however the comment fetch fails (401, 403 and 429 on all 5
\* attempts included), the record is processed with an empty comment
\* collection and the run goes on.
C8_CommentFailureNeverFatal ==
    CommentFetchEnded({"raise", "exit"}) => ProcessedWithoutComments

\* C8 as amended: a comment fetch that ends in an HTTPError (an error status
\* other than 401, 403 and 429) is swallowed: the record is processed with
\* an empty comment collection and the run goes on; a 401, a 403 or a fifth
\* 429 ends the run with exit status 1.
C8_CommentHttpErrorSwallowed ==
    /\ CommentFetchEnded({"raise"}) => ProcessedWithoutComments
    /\ CommentFetchEnded({"exit"}) => pc = "exit1" /\ ~ENABLED Next

\* C8's case: the comment fetch of a record that has comments at the source
\* failed with a 500 after a retry, and the next record is up.
C8_Witness ==
    /\ CommentFetchEnded({"raise"})
    /\ StatusesOf(call) = <<429, 500>>
    /\ CommentsFor(last.issue) # <<>>
    /\ pc = "comments"

CeilDiv(a, b) == (a + b - 1) \div b

RequestsNeeded(T) == IF T = 0 THEN 1 ELSE CeilDiv(T, PageSize)

\* C9: against the honest source of T records _paginate makes
\* max(1, ceil(T/100)) requests, with startAt = 0, 100, 200, ..., and
\* returns the T records in source order, each once.
C9_OffsetDrainsHonestSource ==
    /\ Len(reqs) <= RequestsNeeded(cmd.T)
    /\ \A n \in DOMAIN reqs : reqs[n].param = Num(100 * (n - 1))
    /\ pc = "returned" =>
          /\ Len(reqs) = RequestsNeeded(cmd.T)
          /\ ret = Returned([k \in 1..cmd.T |-> k])

\* C9's case: T = 250 drained in 3 requests.
C9_Witness ==
    /\ pc = "returned"
    /\ cmd.T = 250
    /\ Len(reqs) = 3
    /\ Len(ret.value) = 250

TokenOf(body) == Get(body, "nextPageToken")

PageOf(body) == GetD(body, "issues", Arr(<<>>)).v

\* A response that has a nextPageToken and a non-empty issues array.
GoesOn(body) == TokenOf(body) # Null /\ PageOf(body) # <<>>

\* C10: the first request carries no token and every later one the token of
\* the response just before it; search_issues returns at the first response
\* without a token or with no issues, and at no other; what it returns is
\* the pages of all its requests, concatenated in request order.
C10_CursorPagination ==
    cmd.name \in {"search", "export"} =>
        /\ reqs # <<>> => reqs[1].param = Null
        /\ \A n \in DOMAIN reqs :
              n > 1 => /\ reqs[n - 1].body # Null
                       /\ GoesOn(reqs[n - 1].body)
                       /\ reqs[n].param = TokenOf(reqs[n - 1].body)
        /\ \A n \in DOMAIN reqs :
              (reqs[n].body # Null /\ ~GoesOn(reqs[n].body)) =>
                  n = Len(reqs) /\ issues.returned
        /\ issues.returned =>
              /\ pc # "search"
              /\ reqs # <<>>
              /\ reqs[Len(reqs)].body # Null
              /\ ~GoesOn(reqs[Len(reqs)].body)
              /\ issues.value = Flatten([n \in DOMAIN reqs |-> PageOf(reqs[n].body)])

\* C10's case: tokens on pages 1 and 2, none on page 3: three requests, the
\* second and third carrying different tokens.
C10_Witness ==
    /\ cmd.name = "search"
    /\ pc = "returned"
    /\ Len(reqs) = 3
    /\ reqs[2].param = W("t1")
    /\ reqs[3].param = W("t2")
    /\ TokenOf(reqs[3].body) = Null
    /\ PageOf(reqs[1].body) = <<I2, I3>>
    /\ PageOf(reqs[2].body) = <<I1>>
    /\ PageOf(reqs[3].body) = <<I2, I3>>
    /\ ret.value = <<I2, I3, I1, I2, I3>>

----------------------------------------------------------------------------
(* Claims about the flattener, under SpecFlatten *)

\* Document order, as a reading of the tree: what the node gives by its type
\* (the text of a text, one newline for a hardBreak, '@' and attrs.text or
\* 'user' for a mention, nothing for the rest), then its children's texts
\* from first to last.
RECURSIVE PreOrder(_)
PreOrder(node) ==
    LET f == node.v
        has(k) == k \in DOMAIN f
        is(type) == has("type") /\ f["type"] = W(type)
        own == IF is("text") THEN (IF has("text") THEN f["text"].v ELSE <<>>)
               ELSE IF is("hardBreak") THEN <<"\n">>
               ELSE IF is("mention")
                    THEN <<"@">> \o (IF has("attrs") /\ "text" \in DOMAIN f["attrs"].v
                                     THEN f["attrs"].v["text"].v ELSE <<"user">>)
               ELSE <<>>
        kids == IF has("content") THEN f["content"].v ELSE <<>>
    IN  own \o Flatten([n \in DOMAIN kids |-> PreOrder(kids[n])])

\* C11: when _adf_to_text returns, it returns the document-order
\* concatenation of the tree's text, hardBreak and mention contributions;
\* for content [text 'hi', hardBreak, text 'bye'] that is 'hi\nbye'.
C11_FlattenIsPreOrder ==
    (cmd.name = "_adf_to_text" /\ pc = "returned") =>
        /\ ret.value = Str(PreOrder(cmd.arg))
        /\ cmd.arg = HiBye => ret.value = Str(<<"hi", "\n", "bye">>)

\* C11's case: a two-level tree with a mention without display text before a
\* text, a text with content of its own, and a hardBreak, flattened.
C11_Witness ==
    /\ cmd.name = "_adf_to_text"
    /\ pc = "returned"
    /\ ret.value = Str(<<"@", "user", "hi", "hi", "\n", "bye">>)

\* C12: _adf_to_text never raises on a node tree, mention nodes whose attrs
\* is null included.
C12_FlattenerTotal ==
    cmd.name = "_adf_to_text" => pc # "raised"

----------------------------------------------------------------------------
(* Claims about the normalizer, under SpecNormalize and SpecCustom *)

\* The field is missing from the raw record, or there with the value null.
Absent(issue, f) == Get(Get(issue, "fields"), f) = Null

\* The scalars of the record that come from the raw field f are null, or
\* the collection that comes from it is empty.
Degraded(ticket, f) ==
    CASE f = "status" -> Get(Get(ticket, "status"), "name") = Null
                         /\ Get(Get(ticket, "status"), "category") = Null
      [] f = "priority" -> Get(Get(ticket, "priority"), "name") = Null
      [] f = "issuetype" -> Get(Get(ticket, "issueType"), "name") = Null
                            /\ Get(Get(ticket, "issueType"), "subtask") = Null
      [] f = "project" -> Get(Get(ticket, "project"), "key") = Null
                          /\ Get(Get(ticket, "project"), "name") = Null
      [] f = "resolution" -> Get(ticket, "resolution") = Null
      [] f = "parent" -> Get(ticket, "parent") = Null
      [] f = "components" -> Get(ticket, "components") = Arr(<<>>)
      [] f = "fixVersions" -> Get(ticket, "fixVersions") = Arr(<<>>)
      [] f = "versions" -> Get(ticket, "affectsVersions") = Arr(<<>>)
      [] f = "subtasks" -> Get(ticket, "subtasks") = Arr(<<>>)
      [] f = "issuelinks" -> Get(ticket, "links") = Arr(<<>>)

\* C13: whichever nested fields are missing or null, at the top or one level
\* down, process_issue does not raise, and for each field that is missing or
\* null the record's scalars are null or its collection is empty.
C13_AbsentFieldsDegrade ==
    (cmd.name = "process_issue" /\ pc # "call") =>
        /\ pc = "returned"
        /\ \A f \in ObjectFields \cup ListFields :
              Absent(cmd.arg.issue, f) => Degraded(ret.value, f)

\* The object rule: the 'value' key if present, else the 'name' key if
\* present, else the whole object.
ExtractObject(o) ==
    IF "value" \in DOMAIN o.v THEN o.v["value"]
    ELSE IF "name" \in DOMAIN o.v THEN o.v["name"]
    ELSE o

\* The one projection: the object rule for an object and for every element
\* of an array of objects; anything else unchanged.
Extract(value) ==
    CASE value.t = "dict" -> ExtractObject(value)
      [] value.t = "list" /\ value.v # <<>> /\ (\A n \in DOMAIN value.v : value.v[n].t = "dict") ->
            Arr([n \in DOMAIN value.v |-> ExtractObject(value.v[n])])
      [] OTHER -> value

\* C14: the mapping _extract_custom_fields returns has an entry for exactly
\* the customfield_ keys with a non-null value, and each entry is the one
\* projection of the raw value, elements of arrays treated as single objects are.
C14_CustomFieldsUniform ==
    (cmd.name = "_extract_custom_fields" /\ pc = "returned") =>
        /\ DOMAIN ret.value.v =
              {k \in {"customfield_10001", "customfield_10002"} : cmd.arg.v[k] # Null}
        /\ \A k \in DOMAIN ret.value.v : ret.value.v[k] = Extract(cmd.arg.v[k])

----------------------------------------------------------------------------
(* Claims about the viewer, under SpecViewer *)

Count(seq, x) == Cardinality({n \in DOMAIN seq : seq[n] = x})

SameBag(s1, s2) == \A x \in Range(s1) \cup Range(s2) : Count(s1, x) = Count(s2, x)

\* The text columns of a row that hold text.
TextsOf(row) == {x \in {row.key, row.summary, row.description} : x.t = "str"}

\* Some column holds the words of q next to each other and in q's order.
HasPhrase(row, q) ==
    \E x \in TextsOf(row) :
        Contains(Split(Fold(x.v), Separators, <<>>), Split(Fold(q), Separators, <<>>))

\* Some column holds a word that starts with q.
HasPrefix(row, q) ==
    \E x \in TextsOf(row) :
        \E tok \in Range(Split(Fold(x.v), Separators, <<>>)) : IsPrefix(Fold(q), tok)

\* Some column holds q as a piece of its text, case aside.
HasSubstring(row, q) == \E x \in TextsOf(row) : Contains(Fold(x.v), Fold(q))

\* What one store gives for a request by the store's own path.
OwnPathRows(store, req) ==
    LET text(row) ==
            IF req.q = <<>> THEN TRUE
            ELSE IF ~store.has_fts THEN HasSubstring(row, req.q)
            ELSE IF \E a \in Range(req.q) : a \in Whitespace THEN HasPhrase(row, req.q)
            ELSE HasPrefix(row, req.q)
    IN  SeqMap(Summary, ByRowid({r \in store.db.tickets : text(r) /\ Filtered(r, req)}))

\* C15: for a non-empty text query that search answers, the summaries are,
\* store by store, those of the store's own path: phrase match through the
\* index when the store has tickets_fts and the text holds whitespace,
\* prefix match through the index when it holds none, and case-insensitive
\* substring match over key, summary and description when the store has no
\* tickets_fts.
C15_PathPerStore ==
    (cmd.name = "search" /\ pc = "returned" /\ cmd.arg.req.q # <<>>
        /\ cmd.arg.req.page = 1 /\ ret.value.total_pages <= 1) =>
        SameBag(ret.value.tickets,
                Flatten([n \in DOMAIN cmd.arg.dbs |-> OwnPathRows(cmd.arg.dbs[n], cmd.arg.req)]))

NoFilter(req) == req.status = <<>> /\ req.project = <<>> /\ req.issue_type = <<>>

\* C16: the summaries search returns are in descending order of updated,
\* whatever store each came from, those without updated after all others;
\* with a ticket of 2024-01-01 in one store and one of 2024-06-01 in the
\* other, the second comes first in either order of the stores.
C16_MergedSortedByUpdated ==
    (cmd.name = "search" /\ pc = "returned") =>
        LET t == ret.value.tickets
        IN  /\ \A i, j \in DOMAIN t :
                  i < j => /\ ~TextLess(TextKey(t[i].updated), TextKey(t[j].updated))
                           /\ t[i].updated = Null => t[j].updated = Null
            /\ (/\ cmd.arg.dbs \in {<<Store(DbJan, TRUE), Store(DbJun, TRUE)>>,
                                    <<Store(DbJun, TRUE), Store(DbJan, TRUE)>>}
                /\ cmd.arg.req.q = <<>> /\ NoFilter(cmd.arg.req) /\ cmd.arg.req.page = 1) =>
                  /\ Len(t) = 2
                  /\ t[1].updated = W("2024-06-01")
                  /\ t[2].updated = W("2024-01-01")

\* C16's case: six summaries from two stores, the newest from the second
\* store first, the one without updated, from the first store, last.
C16_Witness ==
    /\ cmd.name = "search"
    /\ pc = "returned"
    /\ cmd.arg.dbs = <<Store(DbA, TRUE), Store(DbB, FALSE)>>
    /\ Len(ret.value.tickets) = 6
    /\ ret.value.tickets[1].key = KeyB
    /\ ret.value.tickets[2].updated = W("2024-06-01")
    /\ ret.value.tickets[3].updated = W("2024-03-01")
    /\ ret.value.tickets[6].updated = Null

\* C17: a page holds at most 50 summaries; totalPages is the merged match
\* count divided by 50, rounded up; over no store, or with no match, search
\* answers with an empty page and totalPages = 0.
C17_FixedPageSize ==
    (cmd.name = "search" /\ pc # "call") =>
        LET merged == AllTickets(cmd.arg.dbs, cmd.arg.req)
        IN  /\ (cmd.arg.dbs = <<>> \/ cmd.arg.req.q = <<"omega">>) => pc = "returned"
            /\ pc = "returned" =>
                  /\ Len(ret.value.tickets) <= 50
                  /\ ret.value.total_pages = CeilDiv(Len(merged), 50)
                  /\ merged = <<>> => ret.value.tickets = <<>> /\ ret.value.total_pages = 0

\* C17's case: 101 matches, page 3 of 3 holding the last one.
C17_Witness ==
    /\ cmd.name = "search"
    /\ pc = "returned"
    /\ Len(AllTickets(cmd.arg.dbs, cmd.arg.req)) = 101
    /\ cmd.arg.req.page = 3
    /\ ret.value.total_pages = 3
    /\ Len(ret.value.tickets) = 1

\* C18: ticket_detail answers 404 exactly when no store holds the key;
\* else the ticket row, the comments and the changelog it serves are those
\* of the first store, in the configured order, that holds the key.
C18_DetailFirstStoreWins ==
    (cmd.name = "ticket_detail" /\ pc # "call") =>
        LET dbs == cmd.arg.dbs
            key == Str(cmd.arg.key)
            holders == {n \in DOMAIN dbs : \E r \in dbs[n].db.tickets : r.key = key}
        IN  /\ pc = "returned"
            /\ IF holders = {} THEN ret.value.status = 404
               ELSE LET first == CHOOSE n \in holders : \A o \in holders : n <= o
                        db == dbs[first].db
                    IN  /\ ret.value.status = 200
                        /\ ret.value.ticket \in db.tickets
                        /\ ret.value.ticket.key = key
                        /\ SameBag(ret.value.comments, ChildrenOf(db.comments, key))
                        /\ SameBag(ret.value.changelog, ChildrenOf(db.changelog, key))

\* C18's case: both stores hold the key, with other summaries and comments;
\* the row and the one comment served are the first store's.
C18_Witness ==
    /\ cmd.name = "ticket_detail"
    /\ pc = "returned"
    /\ cmd.arg.key = KeyA.v
    /\ Len(cmd.arg.dbs) = 2
    /\ cmd.arg.dbs[1].db = DbB
    /\ cmd.arg.dbs[2].db = DbA
    /\ ret.value.ticket.summary = W("gamma")
    /\ Len(ret.value.comments) = 1
    /\ Len(ChildrenOf(DbA.comments, KeyA)) = 2

----------------------------------------------------------------------------
(* Claims about the order of an export run's steps, under Spec *)

\* Every _api_get call of the run's log but the one in flight was answered.
OneRequestAtATime == \A n \in 1..(Len(reqs) - 1) : reqs[n].body # Null

\* The records before position n of the search result are in the committed
\* store, and the connection holds nothing uncommitted.
CommittedUpTo(n) ==
    /\ conn = disk
    /\ clock = n
    /\ \A j \in 1..n : RowsOf(disk, Get(issues.value[j], "key")) # {}
    /\ n >= 1 => /\ InsertDone
                 /\ last.issue = issues.value[n]
                 /\ TicketRow(last.ticket, MaxRowid(disk)) \in disk.tickets

\* C19: an export run fetches the result pages one at a time and upserts
\* nothing before search_issues has returned; and whenever the comment
\* fetch of record N+1 is in progress, the search is over and the records
\* 1..N of the result, in result order, have each been normalized and
\* upserted, and the upserts are committed.
C19_IngestionSequential ==
    cmd.name = "export" =>
        /\ OneRequestAtATime
        /\ pc = "search" =>
              /\ ~issues.returned
              /\ idx = 0
              /\ last = NoCall
              /\ CommittedUpTo(0)
              /\ disk = EmptyDb
        /\ pc = "comments" =>
              /\ issues.returned
              /\ \A n \in DOMAIN reqs : reqs[n].body # Null
              /\ idx < Len(issues.value)
              /\ CommittedUpTo(idx)
              /\ call.outcome = "retry" => call.caller = "get_issue_comments"

\* C19's case: the comment fetch of the third record is in progress (a 429
\* was answered), after a search of two pages.
C19_Witness ==
    /\ cmd.name = "export"
    /\ pc = "comments"
    /\ idx = 2
    /\ Len(reqs) = 2
    /\ call.caller = "get_issue_comments"
    /\ call.outcome = "retry"
    /\ disk.tickets # {}

----------------------------------------------------------------------------
(* Claims about offset pagination against any source, under SpecPaginateAny *)

\* The page of records a logged response carried.
PageIn(body) == GetD(body, cmd.key, Arr(<<>>)).v

\* The records accumulated from the first n logged responses.
Accumulated(n) == Flatten([k \in 1..n |-> PageIn(reqs[k].body)])

\* C20: the total is the one of the first response (the length of its page
\* when it carried none), whatever later responses declare; and once a later
\* page came back empty with fewer records accumulated than that total,
\* _paginate has made no further request and has returned the records
\* accumulated so far.
C20_EmptyPageEndsWithPartialResult ==
    /\ (total # Null /\ total.t = "num") =>
          /\ Len(reqs) >= 1
          /\ total = GetD(reqs[1].body, "total", Num(Len(PageIn(reqs[1].body))))
    /\ \A n \in DOMAIN reqs :
          (/\ n >= 2
           /\ reqs[n].body # Null
           /\ PageIn(reqs[n].body) = <<>>
           /\ Len(Accumulated(n - 1)) < total.v)
          => /\ n = Len(reqs)
             /\ pc = "returned"
             /\ ret = Returned(Accumulated(n))
             /\ Len(ret.value) < total.v

\* C20's case: 250 declared, then a full page, half a page and an empty
\* one, the second response declaring another total: 150 records returned.
C20_Witness ==
    /\ pc = "returned"
    /\ Len(reqs) = 3
    /\ Get(reqs[1].body, "total") = Num(250)
    /\ Get(reqs[2].body, "total") = Num(150)
    /\ PageIn(reqs[3].body) = <<>>
    /\ total = Num(250)
    /\ ret = Returned([k \in 1..150 |-> k])

----------------------------------------------------------------------------
(* Claims about a paginated fetch and the retry loop, under SpecFetch *)

\* The call in progress got 429 on each of its max_retries attempts.
RetriesExhausted == Len(call.responses) = max_retries /\ All429(call)

\* C21: when a request of _paginate or of search_issues has got 429 on all
\* 5 attempts, the process has exited with status 1: the fetch has returned
\* nothing, whatever pages it had accumulated, and it does nothing more.
C21_RetryExhaustionYieldsNothing ==
    RetriesExhausted =>
        /\ pc = "exit1"
        /\ ret = NotReturned
        /\ issues = NotReturned
        /\ ~ENABLED NextFetch

\* C21's case: the second request of _paginate is the one that runs out of
\* attempts, after a first page of records.
C21_Witness ==
    /\ RetriesExhausted
    /\ call.caller = "_paginate"
    /\ Len(reqs) = 2
    /\ Len(acc) = PageSize

\* The server's suggestion: the header's number of seconds, or 10 with no
\* header.
Suggested == IF cmd.arg.suggested = Null THEN 10 ELSE cmd.arg.suggested.v

\* C22: for a 429 whose Retry-After is absent or an integer s, on attempt
\* index a in 0..4, the wait is max(s, 2^a) seconds (s = 10 when absent):
\* never less than s nor than 2^a, and 10, 10, 10, 10, 16 with no header.
C22_WaitIsMaxOfSuggestedAndBackoff ==
    (cmd.name = "wait_time" /\ pc # "call" /\ cmd.arg.suggested.t # "str") =>
        /\ pc = "returned"
        /\ ret.value.v >= Suggested
        /\ ret.value.v >= 2 ^ cmd.arg.attempt
        /\ ret.value.v \in {Suggested, 2 ^ cmd.arg.attempt}
        /\ cmd.arg.suggested = Null =>
              ret.value.v = <<10, 10, 10, 10, 16>>[cmd.arg.attempt + 1]

\* C22's cases: a 429 with no header on attempt index 4 waits 16 seconds,
\* or one with Retry-After: 12 on attempt index 3 waits 12.
C22_Witness ==
    /\ cmd.name = "wait_time"
    /\ pc = "returned"
    /\ \/ cmd.arg.suggested = Null /\ cmd.arg.attempt = 4 /\ ret.value = Num(16)
       \/ cmd.arg.suggested = Num(12) /\ cmd.arg.attempt = 3 /\ ret.value = Num(12)

----------------------------------------------------------------------------
(* Claims about a run that is terminated, under SpecTerminate *)

\* The store holds, for the row's key, the complete data of one record.
CompleteRow(db, row) ==
    \E s \in {x \in Snapshots : Get(x.issue, "key") = row.key}, now \in 0..clock :
        \E comments \in {s.comments, <<>>} :
            CompleteFor(db, row, process_issue(s.issue, comments, now))

\* C23: wherever the run is ended (during the search, between two upserts,
\* during a retry wait, inside an upsert before its commit), the store
\* holds every ticket committed before, each with the complete ticket row
\* and child rows of one record; and the store after an upsert that was cut
\* short is the store before it, so that its ticket has its previous data
\* or is not there.
C23_TerminationKeepsCommitted ==
    /\ \A row \in disk.tickets : CompleteRow(disk, row)
    /\ \A row \in cmd.store.tickets : RowsOf(disk, row.key) # {}
    /\ issues.returned => \A j \in 1..idx : RowsOf(disk, Get(issues.value[j], "key")) # {}
    /\ (pc = "killed" /\ last.op = "insert_ticket" /\ ~last.ok) =>
          /\ disk = last.before
          /\ LET k == Get(last.issue, "key")
             IN  (\A j \in 1..idx : Get(issues.value[j], "key") # k)
                   => RowsOf(disk, k) = RowsOf(cmd.store, k)

\* C23's case: the run is ended inside the upsert of its second record,
\* whose key the first record has too, on a store an earlier run filled.
C23_Witness ==
    /\ pc = "killed"
    /\ last.op = "insert_ticket"
    /\ ~last.ok
    /\ idx = 1
    /\ Get(last.issue, "key") = Get(issues.value[1], "key")
    /\ cmd.store # EmptyDb

----------------------------------------------------------------------------
(* Claims about the filters of search, under SpecFilter *)

\* A summary has exactly the values of the filters that are not empty.
ExactlyFiltered(t, req) ==
    /\ req.status # <<>> => (t.status.t = "str" /\ t.status.v = req.status)
    /\ req.project # <<>> => (t.project_key.t = "str" /\ t.project_key.v = req.project)
    /\ req.issue_type # <<>> => (t.issue_type.t = "str" /\ t.issue_type.v = req.issue_type)

\* The text condition of the store's path.
TextCondition(store, row, q) ==
    IF q = <<>> THEN TRUE
    ELSE IF ~store.has_fts THEN HasSubstring(row, q)
    ELSE IF " " \in Range(q) THEN HasPhrase(row, q)
    ELSE HasPrefix(row, q)

\* The summaries of a store's tickets that meet the text condition and
\* every filter.
Wanted(store, req) ==
    SeqMap(Summary, ByRowid({r \in store.db.tickets :
                                TextCondition(store, r, req.q) /\ ExactlyFiltered(r, req)}))

\* C24: every summary search returns has, for each filter that is not
\* empty, exactly the filter's value, through the index and through LIKE
\* alike; and the list holds, for each store, every ticket of the store
\* that meets the text condition and all filters.
C24_FiltersExactAndComplete ==
    (cmd.name = "search" /\ pc = "returned") =>
        /\ \A n \in DOMAIN ret.value.tickets :
              ExactlyFiltered(ret.value.tickets[n], cmd.arg.req)
        /\ (cmd.arg.req.page = 1 /\ ret.value.total_pages <= 1) =>
              SameBag(ret.value.tickets,
                      Flatten([n \in DOMAIN cmd.arg.dbs |->
                                  Wanted(cmd.arg.dbs[n], cmd.arg.req)]))

\* C24's case: a text query with status Open and type Bug over a store with
\* tickets_fts and one without, which hold tickets of type bug and of
\* status open too: one ticket of each store is returned.
C24_Witness ==
    /\ cmd.name = "search"
    /\ pc = "returned"
    /\ cmd.arg.dbs = <<Store(DbT, TRUE), Store(DbT, FALSE)>>
    /\ cmd.arg.req = Request(<<"alpha">>, <<"Open">>, <<>>, <<"Bug">>, 1)
    /\ Len(ret.value.tickets) = 2

----------------------------------------------------------------------------
(* Claims about the node forms of the flattener, under SpecForms *)

\* The string form of a scalar.
StringForm(x) ==
    CASE x.t = "num" -> <<ToString(x.v)>>
      [] x.t = "bool" -> <<IF x.v THEN "True" ELSE "False">>
      [] x.t = "null" -> <<"None">>

\* The flattening of a node by its form: a string is itself, a sequence the
\* concatenation of its elements' flattenings, a tagged object its own
\* contribution and then its content's, a scalar its string form.
RECURSIVE FormText(_)
FormText(node) ==
    CASE node.t = "str" -> node.v
      [] node.t = "list" -> Flatten([n \in DOMAIN node.v |-> FormText(node.v[n])])
      [] node.t = "dict" ->
            LET f == node.v
                is(type) == "type" \in DOMAIN f /\ f["type"] = W(type)
                own == IF is("text") THEN f["text"].v
                       ELSE IF is("hardBreak") THEN <<"\n">> ELSE <<>>
            IN  own \o (IF "content" \in DOMAIN f THEN FormText(f["content"]) ELSE <<>>)
      [] OTHER -> StringForm(node)

\* C25: _adf_to_text returns the flattening of its input by form, wherever
\* a form occurs: at the top level and in a content sequence a string gives
\* itself, a sequence the concatenation of its elements' flattenings, and a
\* scalar its string form.
C25_FormsAtAnyPosition ==
    (cmd.name = "_adf_to_text" /\ pc = "returned") => ret.value = Str(FormText(cmd.arg))

----------------------------------------------------------------------------
(* Claims about retries within a paginated fetch, under SpecRetry *)

\* The parameter of the n-th request of the fetch against its source when
\* no response is a 429.
ParamOf(n) == IF cmd.name = "paginate" THEN Num(PageSize * (n - 1)) ELSE CursorTokens[n]

\* The requests and the records of the fetch against its source when no
\* response is a 429.
Unthrottled ==
    IF cmd.name = "paginate"
    THEN [requests |-> RequestsNeeded(cmd.T), records |-> [k \in 1..cmd.T |-> k]]
    ELSE [requests |-> Len(CursorSources[cmd.T]), records |-> Flatten(CursorSources[cmd.T])]

LastStatus == call.responses[Len(call.responses)].status

\* C26: wherever 429 responses fall, the fetch sends the requests of the
\* run without 429s, each retry with the parameter of the request it
\* repeats; it returns that run's records; and it ends without a result
\* only on an error status or after 5 responses of 429 to one request.
C26_RetriesInvisible ==
    /\ Len(reqs) <= Unthrottled.requests
    /\ \A n \in DOMAIN reqs : reqs[n].param = ParamOf(n)
    /\ call.outcome = "retry" => (reqs # <<>> /\ param = ParamOf(Len(reqs)))
    /\ pc = "returned" =>
          /\ Len(reqs) = Unthrottled.requests
          /\ ret = Returned(Unthrottled.records)
    /\ pc = "exit1" => (LastStatus \in {401, 403} \/ RetriesExhausted)
    /\ pc = "raised" => LastStatus \in {404, 500}
    /\ (call.responses # <<>> /\ LastStatus = 200) => call.outcome = "return"

\* C26's case: search_issues has returned the records of a three-page
\* source whose last request was answered with four 429s and then 200.
C26_Witness ==
    /\ cmd.name = "search"
    /\ pc = "returned"
    /\ Len(reqs) = 3
    /\ StatusesOf(call) = <<429, 429, 429, 429, 200>>
    /\ ret = Returned(<<I1, I2, I3, I1>>)

----------------------------------------------------------------------------
(* Claims about what an export run writes and when, under SpecExport *)

\* The destination is as the run found it, and the run has no connection.
Untouched == disk = cmd.store /\ conn = Null /\ last = NoCall /\ clock = 0

\* C27: until search_issues has returned, export_to_db has neither opened
\* nor written the destination, so a run that ends during the search leaves
\* it as it was; a search that returns no issue makes export_to_db return 0
\* with the destination not opened and not created; and insert_ticket is
\* called only after search_issues has returned.
C27_NothingWrittenBeforeDrain ==
    /\ ~issues.returned => Untouched
    /\ (issues.returned /\ issues.value = <<>>) =>
          /\ pc = "exit0"
          /\ ret = Returned(0)
          /\ Untouched
    /\ last.op = "insert_ticket" =>
          /\ issues.returned
          /\ \A n \in DOMAIN reqs : reqs[n].body # Null

\* C27's case: the search ends with a fatal error on its second request,
\* after a page of issues, and no destination file exists.
C27_Witness ==
    /\ pc = "exit1"
    /\ ~issues.returned
    /\ acc # <<>>
    /\ Len(reqs) = 2
    /\ cmd.store = Null
    /\ disk = Null

----------------------------------------------------------------------------
(* Claims about the rows insert_ticket leaves alone, under SpecStore *)

\* The rows two stores hold for a key are the same: the tickets row and, in
\* their order, the rows of the four child tables.
SameDataFor(db1, db2, ticket_key) ==
    /\ RowsOf(db1, ticket_key) = RowsOf(db2, ticket_key)
    /\ ChildrenOf(db1.comments, ticket_key) = ChildrenOf(db2.comments, ticket_key)
    /\ ChildrenOf(db1.changelog, ticket_key) = ChildrenOf(db2.changelog, ticket_key)
    /\ ChildrenOf(db1.issue_links, ticket_key) = ChildrenOf(db2.issue_links, ticket_key)
    /\ ChildrenOf(db1.subtasks, ticket_key) = ChildrenOf(db2.subtasks, ticket_key)

\* No two comment rows of a store have the same id.
CommentIdsDistinct(db) ==
    \A i, j \in DOMAIN db.comments :
        (i # j /\ db.comments[i].id # Null) => db.comments[i].id # db.comments[j].id

\* C28: after insert_ticket of a record with key K, whether it reached its
\* commit or raised, the store holds for every other key the tickets row
\* and the comments, changelog, issue_links and subtasks rows it held
\* before the call; and at all times a comment id is in one row, under one
\* ticket key, in the store the connection sees and in the committed one.
C28_UpsertLeavesOtherKeysAlone ==
    /\ last.op = "insert_ticket" =>
          \A k \in Keys \ {Get(last.issue, "key")} : SameDataFor(conn, last.before, k)
    /\ CommentIdsDistinct(conn)
    /\ CommentIdsDistinct(disk)

\* C28's case: a record of KeyA replaces KeyA's rows in a store in which
\* KeyB has a ticket row with comments.
C28_Witness ==
    /\ InsertDone
    /\ Get(last.issue, "key") = KeyA
    /\ RowsOf(last.before, KeyA) # {}
    /\ RowsOf(last.before, KeyB) # {}
    /\ ChildrenOf(last.before.comments, KeyB) # <<>>
    /\ RowsOf(conn, KeyA) # RowsOf(last.before, KeyA)

----------------------------------------------------------------------------
(* Claims about the pages of search, under SpecViewer *)

\* The merged sorted list of the request's stores and query.
Merged == SortByUpdated(AllTickets(cmd.arg.dbs, cmd.arg.req))

\* The part of the merged list that is page p of pages of 50.
PageOfMerged(p) ==
    LET first == (p - 1) * per_page + 1
        end == IF p * per_page < Len(Merged) THEN p * per_page ELSE Len(Merged)
    IN  SubSeq(Merged, first, end)

\* C29: search returns ceil(n / 50) as the number of pages of the n
\* matches; for a page number p in 1..totalPages it returns the p-th run of
\* 50 of the merged sorted list, so that the pages in order make up the
\* list, each match on one page; for any other page number, 0 and the
\* negative ones included, it returns an empty page.
C29_PagesPartition ==
    (cmd.name = "search" /\ pc = "returned") =>
        /\ ret.value.total_pages = CeilDiv(Len(Merged), per_page)
        /\ ret.value.tickets =
              IF cmd.arg.req.page \in 1..ret.value.total_pages
              THEN PageOfMerged(cmd.arg.req.page) ELSE <<>>

----------------------------------------------------------------------------
(* Claims about the end of offset pagination, under SpecPaginateSmall *)

\* C30: against a source of arbitrary page sizes, every response after
\* which _paginate went on added at least one record, and the next request
\* asked for the accumulated count; _paginate has made at most
\* max(1, total) + 1 requests, total being the first response's total or,
\* without one, the length of its page; and the model's request limit is
\* never what stops it.
C30_OffsetPaginationTerminates ==
    /\ \A n \in 1..(Len(reqs) - 1) :
          /\ Len(Accumulated(n)) > Len(Accumulated(n - 1))
          /\ reqs[n + 1].param = Num(Len(Accumulated(n)))
    /\ (reqs # <<>> /\ reqs[1].body # Null) =>
          LET first == GetD(reqs[1].body, "total", Num(Len(PageIn(reqs[1].body))))
          IN  /\ total = first
              /\ Len(reqs) <= Max(1, first.v) + 1
    /\ pc = "returned" =>
          (Len(acc) >= total.v \/ PageIn(reqs[Len(reqs)].body) = <<>>)
    /\ (pc = "paginate" /\ NewCall) => Len(reqs) < MaxSmallTotal

\* C30's case: the largest declared total, reached in as many pages of one
\* record each.
C30_Witness ==
    /\ pc = "returned"
    /\ total = Num(MaxSmallTotal)
    /\ Len(reqs) = MaxSmallTotal
    /\ \A n \in DOMAIN reqs : Len(PageIn(reqs[n].body)) = 1
    /\ ret = Returned([k \in 1..MaxSmallTotal |-> k])

====
